---- MODULE Spec2Model ----
(***************************************************************************)
(* PBarber: trimming and styling (justifying) of CP-solver proof logs.     *)
(*                                                                         *)
(* Proof lines are modelled as the strings the program reads and writes;   *)
(* a file is the sequence of its lines in file (forward) order.            *)
(***************************************************************************)
EXTENDS Integers, Sequences, FiniteSets, TLC

VARIABLES
    mode,                 \* which command of main.rs is running
    input,                \* the input proof file: its lines in file order
    config,               \* TrimmerConfig: eager_deletion, lit_deletion
    lines,                \* Trimmer.lines: number of lines the reverse reader has left
    marked_for_output,    \* Trimmer.marked_for_output (the live set)
    marked_for_deletion,  \* Trimmer.marked_for_deletion
    lits_seen,            \* Trimmer.lits_seen
    out,                  \* Trimmer.out: the lines written, in the order written
    tpc,                  \* where Trimmer.trim stands, and how it returned
    last,                 \* the line the trimmer read in its last loop step, "" if none
    cp_lit_map,           \* Justifier.cp_lit_map: PB variable name -> CPLitData
    fzn,                  \* Justifier.fzn: variables, arrays, constraints
    jconfig,              \* JustifierConfig: read_forwards, max_line_cache
    justifier,            \* the Justifier: lines, out, lines_to_justify,
                          \* defined_lits, defined_bounds; calls (the calls made so
                          \* far, oldest first) and pc (where style stands)
    fused,                \* main.rs: which run of the justifier this is, and the
                          \* result and output file of the trim-and-style run
    bitcall               \* the arguments and results of the bit-width functions

tvars == <<config, lines, marked_for_output, marked_for_deletion, lits_seen, out, tpc, last>>

jvars == <<cp_lit_map, fzn, jconfig, justifier>>

vars == <<mode, input, tvars, jvars, fused, bitcall>>

-----------------------------------------------------------------------------
(* Strings, as Rust's str methods compute them.                            *)

StartsWith(s, p) == Len(s) >= Len(p) /\ SubSeq(s, 1, Len(p)) = p

EndsWith(s, p) == Len(s) >= Len(p) /\ SubSeq(s, Len(s) - Len(p) + 1, Len(s)) = p

RECURSIVE FindFrom(_, _, _)
\* Index of the first occurrence of p in s at or after i; 0 when there is none.
FindFrom(s, p, i) ==
    IF i + Len(p) - 1 > Len(s) THEN 0
    ELSE IF SubSeq(s, i, i + Len(p) - 1) = p THEN i
    ELSE FindFrom(s, p, i + 1)

RECURSIVE Split(_, _)
\* str::split(p): the pieces between the occurrences of p, empty pieces kept.
Split(s, p) ==
    LET i == FindFrom(s, p, 1) IN
    IF i = 0 THEN <<s>>
    ELSE <<SubSeq(s, 1, i - 1)>> \o Split(SubSeq(s, i + Len(p), Len(s)), p)

RECURSIVE TrimStart(_)
TrimStart(s) == IF StartsWith(s, " ") THEN TrimStart(SubSeq(s, 2, Len(s))) ELSE s

RECURSIVE TrimEnd(_)
TrimEnd(s) == IF EndsWith(s, " ") THEN TrimEnd(SubSeq(s, 1, Len(s) - 1)) ELSE s

\* str::trim
Trim(s) == TrimEnd(TrimStart(s))

RECURSIVE Reverse(_)
Reverse(f) == IF f = <<>> THEN <<>> ELSE Reverse(Tail(f)) \o <<Head(f)>>

\* `let v = <expression>;` followed by the statements K that use v.
Bind(v, K(_)) == K(v)

-----------------------------------------------------------------------------
(* Constants of lib.rs.                                                    *)

ALLOWED_RULES == {"a", "pol", "p"}
FORWARD_LIT_DEF_PREFIX == "lf"
REVERSE_LIT_DEF_PREFIX == "lr"

-----------------------------------------------------------------------------
(* Trimmer (trimmer.rs).                                                   *)

\* ProofProcessor::assert_starts_with: TRUE when it returns Ok, FALSE when it
\* returns UnexpectedLineStart.
assert_starts_with(line, pattern) == StartsWith(line, pattern)

\* The first token of a labelled line.
LineId(line) == Split(line, " ")[1]

\* Trimmer::trim, the footer: reads up to three lines from the end of the file.
\* Gives the state trim is in when the footer is done or trim has returned.
TrimFooterResult(file) ==
    LET n == Len(file)
        st0 == [out |-> <<>>, marked |-> {}, lines |-> n, pc |-> "panic"]
    IN
    IF n = 0 THEN st0
    ELSE IF ~StartsWith(file[n], "end pseudo-Boolean")
    THEN [st0 EXCEPT !.lines = n - 1, !.pc = "MissingConclusion"]
    ELSE
    LET st1 == [st0 EXCEPT !.out = <<file[n]>>, !.lines = n - 1] IN
    IF n = 1 THEN st1
    ELSE IF ~assert_starts_with(file[n - 1], "conclusion UNSAT")
    THEN [st1 EXCEPT !.lines = n - 2, !.pc = "UnexpectedLineStart"]
    ELSE
    LET st2 == [st1 EXCEPT !.out = Append(@, file[n - 1]), !.lines = n - 2]
        parts == Split(file[n - 1], ":")
    IN
    IF Len(parts) < 2 THEN st2
    ELSE
    LET contr_id == Trim(Split(parts[2], ";")[1])
        st3 == [st2 EXCEPT !.marked = {contr_id}]
    IN
    IF n = 2 THEN st3
    ELSE IF ~assert_starts_with(file[n - 2], "output")
    THEN [st3 EXCEPT !.lines = n - 3, !.pc = "UnexpectedLineStart"]
    ELSE [st3 EXCEPT !.out = Append(@, file[n - 2]), !.lines = n - 3, !.pc = "scan"]

RECURSIVE TrimPolTermsEagerOnly(_, _, _, _)
\* A loop that writes deletions under eager_deletion only.
TrimPolTermsEagerOnly(terms, st, eager, deferred) ==
    IF terms = <<>> THEN st
    ELSE
    LET term == Head(terms) IN
    IF term = "+" \/ term = "s" \/ term = ";"
    THEN TrimPolTermsEagerOnly(Tail(terms), st, eager, deferred)
    ELSE IF ~assert_starts_with(term, "@")
    THEN [st EXCEPT !.err = TRUE]
    ELSE IF term \notin st.marked
    THEN TrimPolTermsEagerOnly(Tail(terms),
             [st EXCEPT !.out = IF eager THEN Append(@, "del id " \o term \o " ;") ELSE @,
                        !.marked = @ \cup {term}],
             eager, deferred)
    ELSE TrimPolTermsEagerOnly(Tail(terms), st, eager, deferred)

RECURSIVE TrimLitTokensUnseen(_, _)
\* A loop that does not remember the names it has seen.
TrimLitTokensUnseen(tokens, st) ==
    IF tokens = <<>> THEN st
    ELSE
    LET token == Head(tokens)
        lit == IF StartsWith(token, "~") THEN SubSeq(token, 2, Len(token)) ELSE token
    IN
    IF token = ">=" THEN st
    ELSE IF ~StartsWith(lit, "x")
    THEN TrimLitTokensUnseen(Tail(tokens), st)
    ELSE TrimLitTokensUnseen(Tail(tokens),
             [seen |-> st.seen,
              out |-> st.out \o << "del id @" \o FORWARD_LIT_DEF_PREFIX \o lit,
                                   "del id @" \o REVERSE_LIT_DEF_PREFIX \o lit >>])

RECURSIVE TrimPolTermsLenient(_, _, _, _)
\* A loop that skips the terms that do not start with `@`.
TrimPolTermsLenient(terms, st, eager, deferred) ==
    IF terms = <<>> THEN st
    ELSE
    LET term == Head(terms) IN
    IF term = "+" \/ term = "s" \/ term = ";" \/ ~assert_starts_with(term, "@")
    THEN TrimPolTermsLenient(Tail(terms), st, eager, deferred)
    ELSE IF term \notin st.marked
    THEN TrimPolTermsLenient(Tail(terms),
             [st EXCEPT !.out = IF eager \/ term \in deferred
                                THEN Append(@, "del id " \o term \o " ;")
                                ELSE @,
                        !.marked = @ \cup {term}],
             eager, deferred)
    ELSE TrimPolTermsLenient(Tail(terms), st, eager, deferred)

RECURSIVE TrimPolTermsDeleteLive(_, _, _, _)
\* A loop that deletes an operand whether or not it is live already.
TrimPolTermsDeleteLive(terms, st, eager, deferred) ==
    IF terms = <<>> THEN st
    ELSE
    LET term == Head(terms) IN
    IF term = "+" \/ term = "s" \/ term = ";"
    THEN TrimPolTermsDeleteLive(Tail(terms), st, eager, deferred)
    ELSE IF ~assert_starts_with(term, "@")
    THEN [st EXCEPT !.err = TRUE]
    ELSE TrimPolTermsDeleteLive(Tail(terms),
             [st EXCEPT !.out = IF eager \/ term \in deferred
                                THEN Append(@, "del id " \o term \o " ;")
                                ELSE @,
                        !.marked = @ \cup {term}],
             eager, deferred)

RECURSIVE TrimPolTerms(_, _, _, _)
\* The loop over the terms of a live pol line. st: [marked, out, err].
TrimPolTerms(terms, st, eager, deferred) ==
    IF terms = <<>> THEN st
    ELSE
    LET term == Head(terms) IN
    IF term = "+" \/ term = "s" \/ term = ";"
    THEN TrimPolTerms(Tail(terms), st, eager, deferred)
    ELSE IF ~assert_starts_with(term, "@")
    THEN [st EXCEPT !.err = TRUE]
    ELSE IF term \notin st.marked
    THEN TrimPolTerms(Tail(terms),
             [st EXCEPT !.out = IF eager \/ term \in deferred
                                THEN Append(@, "del id " \o term \o " ;")
                                ELSE @,
                        !.marked = @ \cup {term}],
             eager, deferred)
    ELSE TrimPolTerms(Tail(terms), st, eager, deferred)

RECURSIVE TrimLitTokens(_, _)
\* The loop over the tokens of a live assertion under lit_deletion.
\* st: [seen, out].
TrimLitTokens(tokens, st) ==
    IF tokens = <<>> THEN st
    ELSE
    LET token == Head(tokens)
        lit == IF StartsWith(token, "~") THEN SubSeq(token, 2, Len(token)) ELSE token
    IN
    IF token = ">=" THEN st
    ELSE IF ~StartsWith(lit, "x") \/ lit \in st.seen
    THEN TrimLitTokens(Tail(tokens), st)
    ELSE TrimLitTokens(Tail(tokens),
             [seen |-> st.seen \cup {lit},
              out |-> st.out \o << "del id @" \o FORWARD_LIT_DEF_PREFIX \o lit,
                                   "del id @" \o REVERSE_LIT_DEF_PREFIX \o lit >>])

\* The line the reverse reader yields next.
CurrentLine == input[lines]

Scanning == mode = "trim" /\ tpc = "scan" /\ lines > 0

\* A trim that writes the line it read before it looks at it.
TrimFooterWritesFirst ==
    /\ mode = "trim" /\ tpc = "start"
    /\ LET r == TrimFooterResult(input) IN
        /\ out' = IF r.pc = "MissingConclusion" THEN <<input[Len(input)]>> ELSE r.out
        /\ marked_for_output' = r.marked
        /\ lines' = r.lines
        /\ tpc' = r.pc
    /\ UNCHANGED <<mode, input, fused, bitcall, config, marked_for_deletion, lits_seen,
                   last, jvars>>

\* trim, first statement to the start of the loop.
TrimFooter ==
    /\ mode = "trim" /\ tpc = "start"
    /\ LET r == TrimFooterResult(input) IN
        /\ out' = r.out
        /\ marked_for_output' = r.marked
        /\ lines' = r.lines
        /\ tpc' = r.pc
    /\ UNCHANGED <<mode, input, fused, bitcall, config, marked_for_deletion, lits_seen, last, jvars>>

\* A labelled line whose id is live.
TrimMarked ==
    /\ Scanning
    /\ StartsWith(CurrentLine, "@")
    /\ LineId(CurrentLine) \in marked_for_output
    /\ LET split_line == Split(CurrentLine, " ") IN
       IF Len(split_line) < 2 \/ split_line[2] \notin ALLOWED_RULES
       THEN /\ tpc' = "panic"
            /\ UNCHANGED <<marked_for_output, lits_seen, out>>
       ELSE
       LET rule == split_line[2] IN
       IF rule = "pol" \/ rule = "p"
       THEN LET r == TrimPolTerms(SubSeq(split_line, 3, Len(split_line)),
                                  [marked |-> marked_for_output, out |-> out, err |-> FALSE],
                                  config.eager_deletion, marked_for_deletion)
            IN /\ marked_for_output' = r.marked
               /\ out' = IF r.err THEN r.out ELSE Append(r.out, CurrentLine)
               /\ tpc' = IF r.err THEN "UnexpectedLineStart" ELSE tpc
               /\ UNCHANGED lits_seen
       ELSE IF config.lit_deletion /\ rule = "a"
       THEN LET r == TrimLitTokens(split_line, [seen |-> lits_seen, out |-> out])
            IN /\ lits_seen' = r.seen
               /\ out' = Append(r.out, CurrentLine)
               /\ UNCHANGED <<marked_for_output, tpc>>
       ELSE /\ out' = Append(out, CurrentLine)
            /\ UNCHANGED <<marked_for_output, lits_seen, tpc>>
    /\ lines' = lines - 1
    /\ last' = CurrentLine
    /\ UNCHANGED <<mode, input, fused, bitcall, config, marked_for_deletion, jvars>>

\* A trimmer that writes the labelled lines that are not live.
TrimUnmarkedWritten ==
    /\ Scanning
    /\ StartsWith(CurrentLine, "@")
    /\ LineId(CurrentLine) \notin marked_for_output
    /\ out' = Append(out, CurrentLine)
    /\ lines' = lines - 1
    /\ last' = CurrentLine
    /\ UNCHANGED <<mode, input, fused, bitcall, config, marked_for_output,
                   marked_for_deletion, lits_seen, tpc, jvars>>

\* A labelled line whose id is not live: "Not marked, ignore".
TrimUnmarked ==
    /\ Scanning
    /\ StartsWith(CurrentLine, "@")
    /\ LineId(CurrentLine) \notin marked_for_output
    /\ lines' = lines - 1
    /\ last' = CurrentLine
    /\ UNCHANGED <<mode, input, fused, bitcall, config, marked_for_output, marked_for_deletion,
                   lits_seen, out, tpc, jvars>>

IsPreamble(line) == StartsWith(line, "f") \/ StartsWith(line, "pseudo-Boolean")

TrimPreamble ==
    /\ Scanning
    /\ ~StartsWith(CurrentLine, "@")
    /\ IsPreamble(CurrentLine)
    /\ out' = Append(out, CurrentLine)
    /\ lines' = lines - 1
    /\ last' = CurrentLine
    /\ UNCHANGED <<mode, input, fused, bitcall, config, marked_for_output, marked_for_deletion,
                   lits_seen, tpc, jvars>>

IsDeferredDel(line) == ~config.eager_deletion /\ StartsWith(line, "del id")

\* A `del id` line of the input, eager_deletion off.
TrimDelId ==
    /\ Scanning
    /\ ~StartsWith(CurrentLine, "@")
    /\ ~IsPreamble(CurrentLine)
    /\ IsDeferredDel(CurrentLine)
    /\ LET tokens == Split(CurrentLine, " ") IN
       IF Len(tokens) < 3 \/ (EndsWith(tokens[3], ";") /\ Len(tokens[3]) < 2)
       THEN /\ tpc' = "panic"
            /\ UNCHANGED marked_for_deletion
       ELSE LET id == IF EndsWith(tokens[3], ";")
                      THEN SubSeq(tokens[3], 1, Len(tokens[3]) - 2)
                      ELSE tokens[3]
            IN /\ marked_for_deletion' = marked_for_deletion \cup {id}
               /\ UNCHANGED tpc
    /\ lines' = lines - 1
    /\ last' = CurrentLine
    /\ UNCHANGED <<mode, input, fused, bitcall, config, marked_for_output, lits_seen, out, jvars>>

\* A trimmer that writes the lines it does not know.
TrimOtherWritten ==
    /\ Scanning
    /\ ~StartsWith(CurrentLine, "@")
    /\ ~IsPreamble(CurrentLine)
    /\ ~IsDeferredDel(CurrentLine)
    /\ out' = Append(out, CurrentLine)
    /\ lines' = lines - 1
    /\ last' = CurrentLine
    /\ UNCHANGED <<mode, input, fused, bitcall, config, marked_for_output,
                   marked_for_deletion, lits_seen, tpc, jvars>>

\* Any other line: "Something else ? Ignore".
TrimOther ==
    /\ Scanning
    /\ ~StartsWith(CurrentLine, "@")
    /\ ~IsPreamble(CurrentLine)
    /\ ~IsDeferredDel(CurrentLine)
    /\ lines' = lines - 1
    /\ last' = CurrentLine
    /\ UNCHANGED <<mode, input, fused, bitcall, config, marked_for_output, marked_for_deletion,
                   lits_seen, out, tpc, jvars>>

\* The reverse reader is exhausted: trim returns Ok.
TrimReturn ==
    /\ mode = "trim" /\ tpc = "scan" /\ lines = 0
    /\ tpc' = "Ok"
    /\ UNCHANGED <<mode, input, fused, bitcall, config, lines, marked_for_output, marked_for_deletion,
                   lits_seen, out, last, jvars>>

-----------------------------------------------------------------------------
(* Numbers and their text.                                                 *)

Digit(c) ==
    CASE c = "0" -> 0 [] c = "1" -> 1 [] c = "2" -> 2 [] c = "3" -> 3 [] c = "4" -> 4
      [] c = "5" -> 5 [] c = "6" -> 6 [] c = "7" -> 7 [] c = "8" -> 8 [] c = "9" -> 9
      [] OTHER -> -1

RECURSIVE AllDigits(_)
AllDigits(s) == s = "" \/ (Digit(SubSeq(s, 1, 1)) >= 0 /\ AllDigits(SubSeq(s, 2, Len(s))))

RECURSIVE DigitsValue(_, _)
DigitsValue(s, acc) ==
    IF s = "" THEN acc
    ELSE DigitsValue(SubSeq(s, 2, Len(s)), 10 * acc + Digit(SubSeq(s, 1, 1)))

\* str::parse for a signed integer type: [ok, v].
ParseInt(s) ==
    LET neg == StartsWith(s, "-")
        body == IF neg \/ StartsWith(s, "+") THEN SubSeq(s, 2, Len(s)) ELSE s
    IN
    IF body = "" \/ ~AllDigits(body) THEN [ok |-> FALSE, v |-> 0]
    ELSE [ok |-> TRUE, v |-> IF neg THEN 0 - DigitsValue(body, 0) ELSE DigitsValue(body, 0)]

\* str::parse::<usize>: no minus sign.
ParseUsize(s) ==
    LET body == IF StartsWith(s, "+") THEN SubSeq(s, 2, Len(s)) ELSE s IN
    IF body = "" \/ ~AllDigits(body) THEN [ok |-> FALSE, v |-> 0]
    ELSE [ok |-> TRUE, v |-> DigitsValue(body, 0)]

RECURSIVE Pow2(_)
Pow2(n) == IF n = 0 THEN 1 ELSE 2 * Pow2(n - 1)

RECURSIVE BitLength(_)
\* 64 - leading_zeros(n) for a u64 n.
BitLength(n) == IF n = 0 THEN 0 ELSE 1 + BitLength(n \div 2)

Abs(n) == IF n < 0 THEN 0 - n ELSE n

Max(a, b) == IF a >= b THEN a ELSE b

\* justifier.rs, num_bits_for_range.
num_bits_for_range(min, max) ==
    IF min >= 0
    THEN BitLength(max + 1)
    ELSE BitLength(Max(Abs(max), Abs(min)) + 1)

RECURSIVE BitTerms(_, _, _)
\* The loop `for i in (0..num_bits + 1).rev()` of cp_var_bits_str, from i down.
BitTerms(cp_var, multiplier, i) ==
    IF i < 0 THEN ""
    ELSE " " \o ToString(Pow2(i) * multiplier) \o " " \o cp_var \o "_b" \o ToString(i)
             \o BitTerms(cp_var, multiplier, i - 1)

\* cp_var_bits_str from `let mut bits` on, for a given value of num_bits.
\* With min < 0 and num_bits = 0 the statement `num_bits -= 1` overflows.
BitsStr(cp_var, multiplier, min, num_bits) ==
    IF min < 0
    THEN Trim(ToString(Pow2(num_bits) * (0 - multiplier)) \o " " \o cp_var \o "_b"
                  \o ToString(num_bits + 1)
                  \o BitTerms(cp_var, multiplier, num_bits - 1))
    ELSE Trim(BitTerms(cp_var, multiplier, num_bits))

-----------------------------------------------------------------------------
(* Results of fallible calls: Ok(value) or Err(kind, message).  A panic    *)
(* (unwrap, expect, assert!) is carried as an error of kind "panic", which *)
(* no handler of the program matches.                                      *)

Ok(v) == [ok |-> TRUE, val |-> v, kind |-> "", msg |-> ""]

Err(k, m) == [ok |-> FALSE, val |-> "", kind |-> k, msg |-> m]

JustificationError(m) == Err("JustificationError", m)

LiteralLookupError(m) == Err("LiteralLookupError", m)

Panic(m) == Err("panic", m)

-----------------------------------------------------------------------------
(* The FlatZinc and literal-map oracles (justifier.rs, cp_lit_map.rs).     *)

\* A negation that turns the equality operators into order operators.
negated_to_order(operator) ==
    CASE operator = "<" -> ">="
      [] operator = ">=" -> "<"
      [] operator = "==" -> ">="
      [] operator = "!=" -> "<"

\* CPOperator::negated.
negated(operator) ==
    CASE operator = "<" -> ">="
      [] operator = ">=" -> "<"
      [] operator = "==" -> "!="
      [] operator = "!=" -> "=="

\* CPLitMap::get, as used by ensure_lit_defined and get_cp_lit_data.
get_cp_lit_data(lit) ==
    IF lit.var \in DOMAIN cp_lit_map
    THEN Ok(cp_lit_map[lit.var])
    ELSE LiteralLookupError("Couldn't find CP definition for literal " \o lit.var)

get_fzn_variable(id) ==
    IF id \in DOMAIN fzn.variables
    THEN Ok(fzn.variables[id])
    ELSE JustificationError("Expected variable, but got \"" \o id \o "\"")

get_fzn_array(id) ==
    IF id \in DOMAIN fzn.arrays
    THEN Ok(fzn.arrays[id])
    ELSE JustificationError("Expected array, but got \"" \o id \o "\"")

RECURSIVE TrimStartMatches(_, _)
\* str::trim_start_matches(p)
TrimStartMatches(s, p) ==
    IF p # "" /\ StartsWith(s, p) THEN TrimStartMatches(SubSeq(s, Len(p) + 1, Len(s)), p)
    ELSE s

get_fzn_constraint(fzn_id) ==
    LET fzn_line == ParseUsize(TrimStartMatches(Trim(fzn_id), "@f")) IN
    IF ~fzn_line.ok
    THEN JustificationError("Failed to get line number from fzn_id '" \o fzn_id \o "'")
    ELSE IF fzn_line.v + 1 \in DOMAIN fzn.constraints
    THEN Ok(fzn.constraints[fzn_line.v + 1])
    ELSE JustificationError("Couldn't find fzn constraint for id " \o fzn_id)

\* min_max of a RangeList, given as the sequence of its intervals <<lo, hi>>.
min_max(intervals) ==
    IF intervals = <<>> THEN [ok |-> FALSE, min |-> 0, max |-> 0]
    ELSE [ok |-> TRUE, min |-> intervals[1][1], max |-> intervals[Len(intervals)][2]]

\* get_min_max_for_var: Ok(<<min, max>>) or a JustificationError.
get_min_max_for_var(fzn_id) ==
    LET fzn_var == get_fzn_variable(fzn_id) IN
    IF ~fzn_var.ok THEN fzn_var
    ELSE
    LET domain == fzn_var.val.domain IN
    IF domain.kind = "none"
    THEN JustificationError("No domain found for " \o fzn_id
                                \o " in the fzn file (unsupported).")
    ELSE IF domain.kind # "int"
    THEN JustificationError("Expected Int domain for " \o fzn_id
                                \o " but found Float (unsupported).")
    ELSE
    LET mm == min_max(domain.intervals) IN
    IF ~mm.ok
    THEN JustificationError("Couldn't get the min and max domain values for " \o fzn_id)
    ELSE Ok(<<mm.min, mm.max>>)

\* cp_var_bits_str: Ok(the bit string) or the error of get_min_max_for_var.
cp_var_bits_str(cp_var, multiplier) ==
    Bind(get_min_max_for_var(cp_var), LAMBDA mm :
      IF ~mm.ok THEN mm
      ELSE Ok(BitsStr(cp_var, multiplier, mm.val[1],
                      num_bits_for_range(mm.val[1], mm.val[2]))))

-----------------------------------------------------------------------------
(* Justifier: the definition subsystem (justifier.rs).                     *)

\* ProofReader::write_line on the justifier's output.
write_line(js, content) == [js EXCEPT !.out = Append(@, content)]

\* The record of one call: what was called on what, whether it returned Ok,
\* the part of the output it wrote: lines start+1 .. end, the definition ID an
\* ensure_lit_defined returned, and defined_lits and defined_bounds as the
\* call found them (lits0, bounds0) and left them (lits1, bounds1).
Logged(js0, r, fn, arg) ==
    [js |-> [r.js EXCEPT !.calls = Append(@, [fn |-> fn, arg |-> arg, ok |-> r.res.ok,
                                               kind |-> r.res.kind,
                                               start |-> Len(js0.out),
                                               end |-> Len(r.js.out),
                                               ret |-> IF fn = "ensure_lit_defined"
                                                       THEN r.res.val ELSE "",
                                               lits0 |-> js0.defined_lits,
                                               bounds0 |-> js0.defined_bounds,
                                               lits1 |-> r.js.defined_lits,
                                               bounds1 |-> r.js.defined_bounds])],
     res |-> r.res]

\* How a PB literal is written.
LitStr(lit) == IF lit.neg THEN "~" \o lit.var ELSE lit.var

negate(lit) == [lit EXCEPT !.neg = ~@]

definition_id(lit) ==
    "@" \o (IF lit.neg THEN REVERSE_LIT_DEF_PREFIX ELSE FORWARD_LIT_DEF_PREFIX) \o lit.var

EnsureBoundsBody(js, cp_var_id) ==
    LET lb_id == "@lb" \o cp_var_id
        ub_id == "@ub" \o cp_var_id
    IN
    IF cp_var_id \in js.defined_bounds THEN [js |-> js, res |-> Ok(<<lb_id, ub_id>>)]
    ELSE
    LET js1 == [js EXCEPT !.defined_bounds = @ \cup {cp_var_id}] IN
    Bind(get_min_max_for_var(cp_var_id), LAMBDA mm :
      IF ~mm.ok THEN [js |-> js1, res |-> mm]
      ELSE
      Bind(cp_var_bits_str(cp_var_id, 1), LAMBDA bits :
        IF ~bits.ok THEN [js |-> js1, res |-> bits]
        ELSE
        LET lb_line == lb_id \o " a " \o bits.val \o " >=" \o ToString(mm.val[1])
                           \o ":: bits_lower_bound ;"
            ub_line == ub_id \o " a " \o bits.val \o " <=" \o ToString(mm.val[2])
                           \o ":: bits_upper_bound ;"
        IN [js |-> write_line(write_line(js1, lb_line), ub_line),
            res |-> Ok(<<lb_id, ub_id>>)]))

ensure_bounds_defined(js, cp_var_id) ==
    Logged(js, EnsureBoundsBody(js, cp_var_id), "ensure_bounds_defined", cp_var_id)

\* The `red` line of ensure_lit_defined.
RedLine(def_id, lit, bits, operator_str, value) ==
    def_id \o " red " \o (IF lit.neg THEN "~" ELSE " ") \o lit.var \o " ==> " \o bits
        \o " " \o operator_str \o " " \o ToString(value) \o " : " \o lit.var \o " -> "
        \o (IF lit.neg THEN "1" ELSE "0") \o " ;"

\* A Condition branch that writes the value of the map for `<` as well.
EnsureConditionLitSameRhs(js, lit, data) ==
    LET def_id == definition_id(lit)
        operator == IF lit.neg THEN negated(data.operator) ELSE data.operator
    IN
    IF operator # ">=" /\ operator # "<"
    THEN [js |-> js, res |-> JustificationError("Can't handle equality literals yet.")]
    ELSE
    Bind(ParseInt(data.value), LAMBDA parsed :
      IF ~parsed.ok THEN [js |-> js, res |-> Panic("value.parse::<i32>().unwrap()")]
      ELSE
      LET operator_str == IF operator = ">=" THEN ">=" ELSE "<=" IN
      Bind(cp_var_bits_str(data.name, 1), LAMBDA bits :
        IF ~bits.ok THEN [js |-> js, res |-> bits]
        ELSE [js |-> [write_line(js, RedLine(def_id, lit, bits.val, operator_str, parsed.v))
                         EXCEPT !.defined_lits = @ \cup {lit}],
              res |-> Ok(def_id)]))

\* ensure_lit_defined, CPLitData::Condition.
EnsureConditionLit(js, lit, data) ==
    LET def_id == definition_id(lit)
        operator == IF lit.neg THEN negated(data.operator) ELSE data.operator
    IN
    IF operator # ">=" /\ operator # "<"
    THEN [js |-> js, res |-> JustificationError("Can't handle equality literals yet.")]
    ELSE
    Bind(ParseInt(data.value), LAMBDA parsed :
      IF ~parsed.ok THEN [js |-> js, res |-> Panic("value.parse::<i32>().unwrap()")]
      ELSE
      LET value == IF operator = ">=" THEN parsed.v ELSE parsed.v - 1
          operator_str == IF operator = ">=" THEN ">=" ELSE "<="
      IN
      Bind(cp_var_bits_str(data.name, 1), LAMBDA bits :
        IF ~bits.ok THEN [js |-> js, res |-> bits]
        ELSE [js |-> [write_line(js, RedLine(def_id, lit, bits.val, operator_str, value))
                         EXCEPT !.defined_lits = @ \cup {lit}],
              res |-> Ok(def_id)]))

\* A Boolvar branch that takes every value that is not the minimum for the maximum.
EnsureBoolvarLitUnchecked(js, lit, data) ==
    LET def_id == definition_id(lit)
        split_var == Split(data.name, "=")
        var == split_var[1]
        noval == JustificationError("Found Boolvar " \o data.name
                                        \o " with '=' in name, but couldn't parse value")
    IN
    IF Len(split_var) < 2 THEN [js |-> js, res |-> noval]
    ELSE
    Bind(ParseInt(split_var[2]), LAMBDA parsed :
      IF ~parsed.ok THEN [js |-> js, res |-> noval]
      ELSE
      Bind(ensure_bounds_defined(js, var), LAMBDA b :
        IF ~b.res.ok THEN b
        ELSE
        Bind(cp_var_bits_str(var, 1), LAMBDA bits :
          IF ~bits.ok THEN [js |-> b.js, res |-> bits]
          ELSE
          Bind(get_min_max_for_var(var), LAMBDA mm :
            IF ~mm.ok THEN [js |-> b.js, res |-> mm]
            ELSE
            LET min == mm.val[1]
                max == mm.val[2]
                val == parsed.v
            IN
            LET operator == IF val = min THEN (IF lit.neg THEN ">=" ELSE "<=")
                            ELSE (IF lit.neg THEN "<=" ELSE ">=")
                val2 == IF val = min THEN (IF lit.neg THEN val + 1 ELSE val)
                        ELSE (IF lit.neg THEN val - 1 ELSE val)
            IN [js |-> [write_line(b.js, RedLine(def_id, lit, bits.val, operator, val2))
                           EXCEPT !.defined_lits = @ \cup {lit}],
                res |-> Ok("")]))))

\* A Boolvar branch that writes k itself for the negated literal.
EnsureBoolvarLitUnperturbed(js, lit, data) ==
    LET def_id == definition_id(lit)
        split_var == Split(data.name, "=")
        var == split_var[1]
        noval == JustificationError("Found Boolvar " \o data.name
                                        \o " with '=' in name, but couldn't parse value")
    IN
    IF Len(split_var) < 2 THEN [js |-> js, res |-> noval]
    ELSE
    Bind(ParseInt(split_var[2]), LAMBDA parsed :
      IF ~parsed.ok THEN [js |-> js, res |-> noval]
      ELSE
      Bind(ensure_bounds_defined(js, var), LAMBDA b :
        IF ~b.res.ok THEN b
        ELSE
        Bind(cp_var_bits_str(var, 1), LAMBDA bits :
          IF ~bits.ok THEN [js |-> b.js, res |-> bits]
          ELSE
          Bind(get_min_max_for_var(var), LAMBDA mm :
            IF ~mm.ok THEN [js |-> b.js, res |-> mm]
            ELSE
            LET min == mm.val[1]
                max == mm.val[2]
                val == parsed.v
            IN
            IF val # min /\ val # max
            THEN [js |-> b.js,
                  res |-> JustificationError("Found Boolvar " \o data.name
                              \o " with more than two values in its domain.")]
            ELSE
            LET operator == IF val = min THEN (IF lit.neg THEN ">=" ELSE "<=")
                            ELSE (IF lit.neg THEN "<=" ELSE ">=")
                val2 == val
            IN [js |-> [write_line(b.js, RedLine(def_id, lit, bits.val, operator, val2))
                           EXCEPT !.defined_lits = @ \cup {lit}],
                res |-> Ok("")]))))

\* ensure_lit_defined, CPLitData::Boolvar.
EnsureBoolvarLit(js, lit, data) ==
    LET def_id == definition_id(lit)
        split_var == Split(data.name, "=")
        var == split_var[1]
        noval == JustificationError("Found Boolvar " \o data.name
                                        \o " with '=' in name, but couldn't parse value")
    IN
    IF Len(split_var) < 2 THEN [js |-> js, res |-> noval]
    ELSE
    Bind(ParseInt(split_var[2]), LAMBDA parsed :
      IF ~parsed.ok THEN [js |-> js, res |-> noval]
      ELSE
      Bind(ensure_bounds_defined(js, var), LAMBDA b :
        IF ~b.res.ok THEN b
        ELSE
        Bind(cp_var_bits_str(var, 1), LAMBDA bits :
          IF ~bits.ok THEN [js |-> b.js, res |-> bits]
          ELSE
          Bind(get_min_max_for_var(var), LAMBDA mm :
            IF ~mm.ok THEN [js |-> b.js, res |-> mm]
            ELSE
            LET min == mm.val[1]
                max == mm.val[2]
                val == parsed.v
            IN
            IF val # min /\ val # max
            THEN [js |-> b.js,
                  res |-> JustificationError("Found Boolvar " \o data.name
                              \o " with more than two values in its domain.")]
            ELSE
            LET operator == IF val = min THEN (IF lit.neg THEN ">=" ELSE "<=")
                            ELSE (IF lit.neg THEN "<=" ELSE ">=")
                val2 == IF val = min THEN (IF lit.neg THEN val + 1 ELSE val)
                        ELSE (IF lit.neg THEN val - 1 ELSE val)
            IN [js |-> [write_line(b.js, RedLine(def_id, lit, bits.val, operator, val2))
                           EXCEPT !.defined_lits = @ \cup {lit}],
                res |-> Ok("")]))))

\* An ensure_lit_defined that does not look at defined_lits.
EnsureLitBodyAlways(js, lit) ==
    Bind(get_cp_lit_data(lit), LAMBDA cp_lit_data :
      IF ~cp_lit_data.ok THEN [js |-> js, res |-> cp_lit_data]
      ELSE IF cp_lit_data.val.type = "condition"
      THEN EnsureConditionLit(js, lit, cp_lit_data.val)
      ELSE EnsureBoolvarLit(js, lit, cp_lit_data.val))

EnsureLitBody(js, lit) ==
    IF lit \in js.defined_lits THEN [js |-> js, res |-> Ok(definition_id(lit))]
    ELSE
    Bind(get_cp_lit_data(lit), LAMBDA cp_lit_data :
      IF ~cp_lit_data.ok THEN [js |-> js, res |-> cp_lit_data]
      ELSE IF cp_lit_data.val.type = "condition"
      THEN EnsureConditionLit(js, lit, cp_lit_data.val)
      ELSE EnsureBoolvarLit(js, lit, cp_lit_data.val))

\* An ensure_lit_defined that takes every literal as defined already.
ensure_lit_assumed_defined(js, lit) == [js |-> js, res |-> Ok(definition_id(lit))]

ensure_lit_defined(js, lit) ==
    Logged(js, EnsureLitBody(js, lit), "ensure_lit_defined", LitStr(lit))

RECURSIVE EnsureAllLits(_, _, _, _, _)
\* The loop of ensure_all_lits_defined over the constraint's literals.
EnsureAllLits(js, lits, strict, pos_def_ids, neg_def_ids) ==
    IF lits = <<>> THEN [js |-> js, res |-> Ok(<<pos_def_ids, neg_def_ids>>)]
    ELSE
    LET lit == Head(lits) IN
    Bind(ensure_lit_defined(js, lit), LAMBDA p :
      IF ~p.res.ok /\ ~(p.res.kind = "LiteralLookupError" /\ ~strict) THEN p
      ELSE
      Bind(ensure_lit_defined(p.js, negate(lit)), LAMBDA n :
        IF ~n.res.ok /\ ~(n.res.kind = "LiteralLookupError" /\ ~strict) THEN n
        ELSE EnsureAllLits(n.js, Tail(lits), strict,
                 IF p.res.ok THEN Append(pos_def_ids, p.res.val) ELSE pos_def_ids,
                 IF n.res.ok THEN Append(neg_def_ids, n.res.val) ELSE neg_def_ids)))

ensure_all_lits_defined(js, constraint, strict) ==
    EnsureAllLits(js, constraint.lits, strict, <<>>, <<>>)

-----------------------------------------------------------------------------
(* PB constraints: the parser and printer the justifier calls.             *)

NonEmpty(tokens) == SelectSeq(tokens, LAMBDA t : t # "")

ParseLit(token) ==
    IF StartsWith(token, "~")
    THEN [var |-> SubSeq(token, 2, Len(token)), neg |-> TRUE]
    ELSE [var |-> token, neg |-> FALSE]

IsComparator(token) == token = ">=" \/ token = "<=" \/ token = "="

\* parse_constraint: appends ';' and parses `coef lit ... op rhs ;`.
\* [ok, terms, lits, op, rhs]; ok = FALSE is the panic of `expect`.
parse_constraint(constraint_str) ==
    LET tokens == NonEmpty(Split(constraint_str \o ";", " "))
        ops == { i \in 1..Len(tokens) : IsComparator(tokens[i]) }
        bad == [ok |-> FALSE, terms |-> <<>>, lits |-> <<>>, op |-> "", rhs |-> ""]
    IN
    IF ops = {} THEN bad
    ELSE
    LET k == CHOOSE i \in ops : \A j \in ops : i <= j
        n == (k - 1) \div 2
    IN
    IF (k - 1) % 2 # 0 \/ Len(tokens) # k + 2 \/ tokens[k + 2] # ";"
       \/ ~ParseInt(tokens[k + 1]).ok
       \/ \E i \in 1..n : ~ParseInt(tokens[2 * i - 1]).ok
    THEN bad
    ELSE [ok |-> TRUE,
          terms |-> [i \in 1..n |-> [coef |-> tokens[2 * i - 1],
                                      lit |-> ParseLit(tokens[2 * i])]],
          lits |-> [i \in 1..n |-> ParseLit(tokens[2 * i])],
          op |-> tokens[k],
          rhs |-> tokens[k + 1]]

RECURSIVE TermsStr(_)
TermsStr(terms) ==
    IF terms = <<>> THEN ""
    ELSE Head(terms).coef \o " " \o LitStr(Head(terms).lit) \o " " \o TermsStr(Tail(terms))

\* DynPBConstraint::to_pretty_string: the canonical text of the constraint.
to_pretty_string(constraint) ==
    TermsStr(constraint.terms) \o constraint.op \o " " \o constraint.rhs

RECURSIVE trim_sc(_)
\* trim_end_matches(';')
trim_sc(to_trim) ==
    IF EndsWith(to_trim, ";") THEN trim_sc(SubSeq(to_trim, 1, Len(to_trim) - 1))
    ELSE to_trim

\* str::splitn(2, p)
SplitN2(s, p) ==
    LET i == FindFrom(s, p, 1) IN
    IF i = 0 THEN <<s>>
    ELSE <<SubSeq(s, 1, i - 1), SubSeq(s, i + Len(p), Len(s))>>

-----------------------------------------------------------------------------
(* PolBuilder (justifier.rs).                                              *)

PolBuilder_new == [pol_line |-> "pol ", empty |-> TRUE]

PolBuilder_add(pol, term) ==
    [pol_line |-> pol.pol_line \o term \o (IF pol.empty THEN " " ELSE " + "),
     empty |-> FALSE]

RECURSIVE PolBuilder_add_all(_, _)
PolBuilder_add_all(pol, terms) ==
    IF terms = <<>> THEN pol
    ELSE PolBuilder_add_all(PolBuilder_add(pol, Head(terms)), Tail(terms))

PolBuilder_add_weighted(pol, term, weight) ==
    [pol_line |-> pol.pol_line \o term \o " " \o ToString(weight) \o " *"
                      \o (IF pol.empty THEN " " ELSE " + "),
     empty |-> FALSE]

PolBuilder_done(pol) == pol.pol_line \o ";"

-----------------------------------------------------------------------------
(* IntVarDef (justifier/int_var_def.rs).                                   *)

\* An IntVarDef that sums the definitions of the literals, not of their negations.
IntVarDef_justify_pos(js, constraint, id_str) ==
    Bind(ensure_all_lits_defined(js, constraint, TRUE), LAMBDA e :
      IF ~e.res.ok THEN e
      ELSE
      LET pol_line == PolBuilder_done(PolBuilder_add_all(PolBuilder_new, e.res.val[1]))
          imp_line == id_str \o " ia " \o trim_sc(to_pretty_string(constraint))
                          \o " : -1;"
      IN [js |-> write_line(write_line(e.js, pol_line), imp_line), res |-> Ok("")])

IntVarDef_justify(js, constraint, id_str) ==
    Bind(ensure_all_lits_defined(js, constraint, TRUE), LAMBDA e :
      IF ~e.res.ok THEN e
      ELSE
      LET neg_def_ids == e.res.val[2] IN
      IF Len(neg_def_ids) > 2
      THEN [js |-> e.js, res |-> JustificationError("IntVarDef with more than 2 lits")]
      ELSE
      LET pol_line == PolBuilder_done(PolBuilder_add_all(PolBuilder_new, neg_def_ids))
          imp_line == id_str \o " ia " \o trim_sc(to_pretty_string(constraint))
                          \o " : -1;"
      IN [js |-> write_line(write_line(e.js, pol_line), imp_line), res |-> Ok("")])

-----------------------------------------------------------------------------
(* IntLinear (justifier/int_linear.rs).                                    *)

RECURSIVE EncodeTerms(_, _)
\* The loop of encode_lin over coeffs zipped with vars: Ok(text) or an error.
EncodeTerms(coeffs, vs) ==
    IF coeffs = <<>> \/ vs = <<>> THEN Ok("")
    ELSE
    Bind(cp_var_bits_str(Head(vs), Head(coeffs)), LAMBDA bits :
      IF ~bits.ok THEN bits
      ELSE
      Bind(EncodeTerms(Tail(coeffs), Tail(vs)), LAMBDA rest :
        IF ~rest.ok THEN rest
        ELSE Ok(" " \o bits.val \o rest.val)))

encode_lin(js, self, operator, id) ==
    Bind(EncodeTerms(self.coeffs, self.vars), LAMBDA terms :
      IF ~terms.ok THEN [js |-> js, res |-> terms]
      ELSE [js |-> write_line(js, id \o " a" \o terms.val \o " " \o operator \o " "
                                     \o ToString(self.rhs) \o " :: "
                                     \o self.constraint_name \o ";"),
            res |-> Ok("")])

\* An encode that writes the `_ge` axiom of int_lin_eq before the `_le` axiom.
encode_ge_first(js, self) ==
    LET le_id == self.fzn_id \o "_le"
        ge_id == self.fzn_id \o "_ge"
    IN
    IF self.constraint_name # "int_lin_le" /\ self.constraint_name # "int_lin_eq"
    THEN [js |-> js,
          res |-> JustificationError("Don't know how to encode constraint "
                                         \o self.constraint_name)]
    ELSE IF self.constraint_name = "int_lin_le"
    THEN Bind(encode_lin(js, self, "<=", le_id), LAMBDA le :
           IF ~le.res.ok THEN le
           ELSE [js |-> le.js, res |-> Ok([self EXCEPT !.reif_implies_le = le_id])])
    ELSE
    Bind(encode_lin(js, self, ">=", ge_id), LAMBDA ge :
      IF ~ge.res.ok THEN ge
      ELSE
      Bind(encode_lin(ge.js, self, "<=", le_id), LAMBDA le :
        IF ~le.res.ok THEN le
        ELSE [js |-> le.js,
              res |-> Ok([self EXCEPT !.reif_implies_le = le_id,
                                      !.reif_implies_ge = ge_id])]))

\* IntLinearJustifier::encode: Ok(the justifier with its encoding ids set).
encode(js, self) ==
    LET le_id == self.fzn_id \o "_le"
        ge_id == self.fzn_id \o "_ge"
    IN
    IF self.constraint_name # "int_lin_le" /\ self.constraint_name # "int_lin_eq"
    THEN [js |-> js,
          res |-> JustificationError("Don't know how to encode constraint "
                                         \o self.constraint_name)]
    ELSE
    Bind(encode_lin(js, self, "<=", le_id), LAMBDA le :
      IF ~le.res.ok THEN le
      ELSE IF self.constraint_name = "int_lin_le"
      THEN [js |-> le.js, res |-> Ok([self EXCEPT !.reif_implies_le = le_id])]
      ELSE
      Bind(encode_lin(le.js, self, ">=", ge_id), LAMBDA ge :
        IF ~ge.res.ok THEN ge
        ELSE [js |-> ge.js,
              res |-> Ok([self EXCEPT !.reif_implies_le = le_id,
                                      !.reif_implies_ge = ge_id])]))

\* IntLinearJustifier::new.
IntLinearJustifier_new(js, antecedents_str) ==
    LET fzn_id == Split(Trim(antecedents_str), " ")[1] IN
    Bind(get_fzn_constraint(fzn_id), LAMBDA fc :
    IF ~fc.ok THEN [js |-> js, res |-> fc]
    ELSE
    LET fzn_constraint == fc.val IN
    IF fzn_constraint.id # "int_lin_le" /\ fzn_constraint.id # "int_lin_eq"
    THEN [js |-> js,
          res |-> JustificationError("Don't know how to encode constraint "
                                         \o fzn_constraint.id)]
    ELSE IF Len(fzn_constraint.args) < 3
    THEN [js |-> js, res |-> Panic("index out of bounds")]
    ELSE
    LET coeffs == fzn_constraint.args[1]
        vars_l == fzn_constraint.args[2]
        rhs == fzn_constraint.args[3]
        arr == IF coeffs.kind = "literal" /\ coeffs.lit.t = "id"
               THEN get_fzn_array(coeffs.lit.v)
               ELSE Ok([contents |-> <<>>])
        coeffs_l == IF coeffs.kind = "array" THEN coeffs.contents ELSE arr.val.contents
    IN
    IF coeffs.kind # "array" /\ ~(coeffs.kind = "literal" /\ coeffs.lit.t = "id")
    THEN [js |-> js,
          res |-> JustificationError("IntLinear: coeff should be array, or array identifier")]
    ELSE IF ~arr.ok THEN [js |-> js, res |-> arr]
    ELSE IF \E i \in 1..Len(coeffs_l) : coeffs_l[i].t # "int"
    THEN [js |-> js, res |-> JustificationError("IntLinear: coeff should be integer")]
    ELSE IF vars_l.kind # "array"
    THEN [js |-> js, res |-> JustificationError("IntLinear: vars should be array")]
    ELSE IF \E i \in 1..Len(vars_l.contents) : vars_l.contents[i].t # "id"
    THEN [js |-> js, res |-> JustificationError("IntLinear: coeff should be integer")]
    ELSE IF ~(rhs.kind = "literal" /\ rhs.lit.t = "int")
    THEN [js |-> js, res |-> JustificationError("IntLinear: rhs should be Int")]
    ELSE encode(js, [family |-> "IntLinear",
                     fzn_id |-> fzn_id,
                     constraint_name |-> fzn_constraint.id,
                     coeffs |-> [i \in 1..Len(coeffs_l) |-> coeffs_l[i].v],
                     vars |-> [i \in 1..Len(vars_l.contents) |-> vars_l.contents[i].v],
                     rhs |-> rhs.lit.v,
                     reif_implies_le |-> "",
                     reif_implies_ge |-> ""]))

\* CPLitData::get_name: the `name` field of either variant.
get_name(cp_lit_data) == cp_lit_data.name

RECURSIVE ReasonVars(_)
\* The first loop of sub_lits_into_ineq: Ok(reason_vars) or the lookup error.
ReasonVars(lits) ==
    IF lits = <<>> THEN Ok(<<>>)
    ELSE
    Bind(get_cp_lit_data(Head(lits)), LAMBDA d :
      IF ~d.ok THEN d
      ELSE
      Bind(ReasonVars(Tail(lits)), LAMBDA rest :
        IF ~rest.ok THEN rest ELSE Ok(<<get_name(d.val)>> \o rest.val)))

\* Iterator::position
Position(seq, v) ==
    LET hits == { i \in 1..Len(seq) : seq[i] = v } IN
    IF hits = {} THEN 0 ELSE CHOOSE i \in hits : \A j \in hits : i <= j

RECURSIVE SubLitsTermsSwapped(_, _, _, _, _, _, _)
\* A second loop that takes the upper bound where the lower bound belongs.
SubLitsTermsSwapped(js, pol, coeffs, vs, reason_vars, neg_def_ids, mult) ==
    IF coeffs = <<>> \/ vs = <<>> THEN [js |-> js, res |-> Ok(pol)]
    ELSE
    LET coeff == Head(coeffs)
        var == Head(vs)
        i == Position(reason_vars, var)
    IN
    IF i # 0
    THEN IF i > Len(neg_def_ids)
         THEN [js |-> js, res |-> Panic("neg_def_ids.get(i).unwrap()")]
         ELSE SubLitsTermsSwapped(js,
                  IF neg_def_ids[i] # ""
                  THEN PolBuilder_add_weighted(pol, neg_def_ids[i], Abs(coeff))
                  ELSE pol,
                  Tail(coeffs), Tail(vs), reason_vars, neg_def_ids, mult)
    ELSE
    Bind(ensure_bounds_defined(js, var), LAMBDA b :
      IF ~b.res.ok THEN b
      ELSE SubLitsTermsSwapped(b.js,
               IF coeff * mult > 0
               THEN PolBuilder_add_weighted(pol, b.res.val[2], Abs(coeff))
               ELSE IF coeff * mult < 0
               THEN PolBuilder_add_weighted(pol, b.res.val[1], Abs(coeff))
               ELSE pol,
               Tail(coeffs), Tail(vs), reason_vars, neg_def_ids, mult))

RECURSIVE SubLitsTerms(_, _, _, _, _, _, _)
\* The second loop of sub_lits_into_ineq, over coeffs zipped with vars.
SubLitsTerms(js, pol, coeffs, vs, reason_vars, neg_def_ids, mult) ==
    IF coeffs = <<>> \/ vs = <<>> THEN [js |-> js, res |-> Ok(pol)]
    ELSE
    LET coeff == Head(coeffs)
        var == Head(vs)
        i == Position(reason_vars, var)
    IN
    IF i # 0
    THEN IF i > Len(neg_def_ids)
         THEN [js |-> js, res |-> Panic("neg_def_ids.get(i).unwrap()")]
         ELSE SubLitsTerms(js,
                  IF neg_def_ids[i] # ""
                  THEN PolBuilder_add_weighted(pol, neg_def_ids[i], Abs(coeff))
                  ELSE pol,
                  Tail(coeffs), Tail(vs), reason_vars, neg_def_ids, mult)
    ELSE
    Bind(ensure_bounds_defined(js, var), LAMBDA b :
      IF ~b.res.ok THEN b
      ELSE SubLitsTerms(b.js,
               IF coeff * mult > 0
               THEN PolBuilder_add_weighted(pol, b.res.val[1], Abs(coeff))
               ELSE IF coeff * mult < 0
               THEN PolBuilder_add_weighted(pol, b.res.val[2], Abs(coeff))
               ELSE pol,
               Tail(coeffs), Tail(vs), reason_vars, neg_def_ids, mult))

sub_lits_into_ineq(js, self, neg_def_ids, constraint, enc_id, mult) ==
    Bind(ReasonVars(constraint.lits), LAMBDA reason_vars :
      IF ~reason_vars.ok THEN [js |-> js, res |-> reason_vars]
      ELSE
      Bind(SubLitsTerms(js, PolBuilder_add(PolBuilder_new, enc_id), self.coeffs,
                        self.vars, reason_vars.val, neg_def_ids, mult), LAMBDA r :
        IF ~r.res.ok THEN r
        ELSE [js |-> write_line(r.js, PolBuilder_done(r.res.val)), res |-> Ok("")]))

IntLinear_justify(js, self, constraint, id_str) ==
    LET rup_line == id_str \o " rup " \o to_pretty_string(constraint) \o ";" IN
    Bind(ensure_all_lits_defined(js, constraint, TRUE), LAMBDA e :
      IF ~e.res.ok THEN e
      ELSE
      LET neg_def_ids == e.res.val[2] IN
      IF self.constraint_name # "int_lin_le" /\ self.constraint_name # "int_lin_eq"
      THEN [js |-> e.js,
            res |-> JustificationError(self.constraint_name \o " not yet implemented")]
      ELSE
      Bind(sub_lits_into_ineq(e.js, self, neg_def_ids, constraint,
                              self.reif_implies_le, 1), LAMBDA le :
        IF ~le.res.ok THEN le
        ELSE IF self.constraint_name = "int_lin_le"
        THEN [js |-> write_line(le.js, rup_line), res |-> Ok("")]
        ELSE
        Bind(sub_lits_into_ineq(le.js, self, neg_def_ids, constraint,
                                self.reif_implies_ge, -1), LAMBDA ge :
          IF ~ge.res.ok THEN ge
          ELSE [js |-> write_line(ge.js, rup_line), res |-> Ok("")])))

-----------------------------------------------------------------------------
(* Justifier: justify and its fallbacks (justifier.rs).                    *)

\* install_justifier: Ok(the family justifier) or a JustificationError.
install_justifier(js, name, antecedents_str) ==
    IF name = "IntVarDef" THEN [js |-> js, res |-> Ok([family |-> "IntVarDef"])]
    ELSE IF name = "IntLinear" THEN IntLinearJustifier_new(js, antecedents_str)
    ELSE [js |-> js, res |-> JustificationError(name \o " not yet supported")]

\* A family justifier that derives the constraint under another ID.
Justify_justify_renamed(js, family_justifier, constraint, id_str) ==
    IF family_justifier.family = "IntVarDef"
    THEN IntVarDef_justify(js, constraint, id_str \o "'")
    ELSE IntLinear_justify(js, family_justifier, constraint, id_str \o "'")

\* Justify::justify of the installed family justifier.
Justify_justify(js, family_justifier, constraint, id_str) ==
    IF family_justifier.family = "IntVarDef"
    THEN IntVarDef_justify(js, constraint, id_str)
    ELSE IntLinear_justify(js, family_justifier, constraint, id_str)

FailedComment(msg) ==
    "% PBarber Justifier failed to justify the following: (error msg: " \o msg \o ")"

BareAssertion(constraint, id_str, name_str) ==
    id_str \o " a " \o trim_sc(to_pretty_string(constraint)) \o " :: " \o name_str \o ";"

write_bare_assertion(js, constraint, id_str, name_str) ==
    write_line(js, BareAssertion(constraint, id_str, name_str))

\* A failed_to_justify that writes the bare assertion only.
failed_to_justify_uncommented(js, constraint, id_str, name_str, msg) ==
    [js |-> write_bare_assertion(js, constraint, id_str, name_str), res |-> Ok("")]

\* A failed_to_justify that writes the comment after the bare assertion.
failed_to_justify_comment_last(js, constraint, id_str, name_str, msg) ==
    [js |-> write_line(write_bare_assertion(js, constraint, id_str, name_str),
                       FailedComment(msg)),
     res |-> Ok("")]

failed_to_justify(js, constraint, id_str, name_str, msg) ==
    [js |-> write_bare_assertion(write_line(js, FailedComment(msg)),
                                 constraint, id_str, name_str),
     res |-> Ok("")]

\* parse_assertion_line: [ok, id, constraint_str, constraint, antecedents_str,
\* has_name, name]; ok = FALSE is a panic (unwrap, expect).
parse_assertion_line(current_line) ==
    LET split_line == Split(current_line, ":")
        split_before_colon == SplitN2(split_line[1], " a ")
        bad == [ok |-> FALSE, id |-> "", constraint_str |-> "",
                constraint |-> [ok |-> FALSE], antecedents_str |-> "",
                has_name |-> FALSE, name |-> ""]
    IN
    IF Len(split_before_colon) < 2 THEN bad
    ELSE
    Bind(parse_constraint(split_before_colon[2]), LAMBDA constraint :
      IF ~constraint.ok THEN bad
      ELSE IF Len(split_line) < 2 THEN bad
      ELSE [ok |-> TRUE,
            id |-> split_before_colon[1],
            constraint_str |-> split_before_colon[2],
            constraint |-> constraint,
            antecedents_str |-> split_line[2],
            has_name |-> Len(split_line) >= 3,
            name |-> IF Len(split_line) >= 3 THEN split_line[3] ELSE ""])

\* Justifier::justify, the match on the install result.
JustifyInstalled(js, install, constraint, id, name) ==
    IF ~install.res.ok
    THEN IF install.res.kind = "JustificationError"
         THEN Bind(ensure_all_lits_defined(install.js, constraint, FALSE), LAMBDA e :
                IF ~e.res.ok THEN e
                ELSE failed_to_justify(e.js, constraint, id, name, install.res.msg))
         ELSE install
    ELSE
    Bind(Justify_justify(install.js, install.res.val, constraint, id), LAMBDA run :
      IF ~run.res.ok /\ run.res.kind = "JustificationError"
      THEN failed_to_justify(run.js, constraint, id, name, run.res.msg)
      ELSE run)

JustifyBody(js, current_line) ==
    Bind(parse_assertion_line(current_line), LAMBDA p :
      IF ~p.ok THEN [js |-> js, res |-> Panic("parse_assertion_line")]
      ELSE IF ~p.has_name THEN [js |-> write_line(js, current_line), res |-> Ok("")]
      ELSE
      Bind(trim_sc(Trim(p.name)), LAMBDA name :
        JustifyInstalled(js, install_justifier(js, name, p.antecedents_str),
                         p.constraint, p.id, name)))

justify(js, current_line) ==
    Logged(js, JustifyBody(js, current_line), "justify", current_line)

-----------------------------------------------------------------------------
(* Justifier::style (justifier.rs).                                        *)

\* HashMap::remove and HashMap::insert on lines_to_justify.
MapRemove(m, k) == [x \in DOMAIN m \ {k} |-> m[x]]

MapInsert(m, k, v) == [x \in DOMAIN m \cup {k} |-> IF x = k THEN v ELSE m[x]]

RECURSIVE StylePolTermsKeep(_, _)
\* A loop over the terms that leaves a justified assertion in the cache.
StylePolTermsKeep(js, terms) ==
    IF terms = <<>> THEN [js |-> js, res |-> Ok("")]
    ELSE
    LET term == Head(terms) IN
    IF term = "+" \/ term = "s" \/ term = ";" THEN StylePolTermsKeep(js, Tail(terms))
    ELSE IF ~assert_starts_with(term, "@")
    THEN [js |-> js, res |-> Err("UnexpectedLineStart", term)]
    ELSE IF term \in DOMAIN js.lines_to_justify
    THEN Bind(justify(js, js.lines_to_justify[term]), LAMBDA j :
           IF ~j.res.ok THEN j ELSE StylePolTermsKeep(j.js, Tail(terms)))
    ELSE StylePolTermsKeep(js, Tail(terms))

RECURSIVE StylePolTerms(_, _)
\* The loop of style over the terms of a pol line.
StylePolTerms(js, terms) ==
    IF terms = <<>> THEN [js |-> js, res |-> Ok("")]
    ELSE
    LET term == Head(terms) IN
    IF term = "+" \/ term = "s" \/ term = ";" THEN StylePolTerms(js, Tail(terms))
    ELSE IF ~assert_starts_with(term, "@")
    THEN [js |-> js, res |-> Err("UnexpectedLineStart", term)]
    ELSE IF term \in DOMAIN js.lines_to_justify
    THEN Bind(justify([js EXCEPT !.lines_to_justify = MapRemove(@, term)],
                      js.lines_to_justify[term]), LAMBDA j :
           IF ~j.res.ok THEN j ELSE StylePolTerms(j.js, Tail(terms)))
    ELSE StylePolTerms(js, Tail(terms))

\* How style ends on a result r: it goes on, or returns the error.
AfterCall(r) ==
    [r.js EXCEPT !.pc = IF r.res.ok THEN "style" ELSE r.res.kind,
                 !.lines = Tail(@)]

Styling == mode = "style" /\ justifier.pc = "style" /\ justifier.lines # <<>>

JCurrentLine == Head(justifier.lines)

IsLabelled(line) == StartsWith(line, "@")

\* The rule of a labelled line; "" when the line has no second token.
Rule(line) == LET t == Split(line, " ") IN IF Len(t) < 2 THEN "" ELSE t[2]

\* A labelled line whose rule is missing or not allowed: unwrap or assert! panics.
StylePanic ==
    /\ Styling
    /\ IsLabelled(JCurrentLine)
    /\ Rule(JCurrentLine) \notin ALLOWED_RULES
    /\ justifier' = [justifier EXCEPT !.pc = "panic", !.lines = Tail(@)]
    /\ UNCHANGED <<mode, input, fused, bitcall, tvars, cp_lit_map, fzn, jconfig>>

StylePol ==
    /\ Styling
    /\ IsLabelled(JCurrentLine)
    /\ Rule(JCurrentLine) \in {"pol", "p"}
    /\ LET split_line == Split(JCurrentLine, " ") IN
       justifier' = Bind(StylePolTerms(justifier, SubSeq(split_line, 3, Len(split_line))),
                         LAMBDA r :
                           AfterCall(IF r.res.ok
                                     THEN [js |-> write_line(r.js, JCurrentLine),
                                           res |-> r.res]
                                     ELSE r))
    /\ UNCHANGED <<mode, input, fused, bitcall, tvars, cp_lit_map, fzn, jconfig>>

\* A style that never caches an assertion.
StyleAssertionUncached ==
    /\ Styling
    /\ IsLabelled(JCurrentLine)
    /\ Rule(JCurrentLine) = "a"
    /\ justifier' = AfterCall(justify(justifier, JCurrentLine))
    /\ UNCHANGED <<mode, input, fused, bitcall, tvars, cp_lit_map, fzn, jconfig>>

\* A style that caches an assertion also when the cache is full.
StyleAssertionOverfull ==
    /\ Styling
    /\ IsLabelled(JCurrentLine)
    /\ Rule(JCurrentLine) = "a"
    /\ IF Cardinality(DOMAIN justifier.lines_to_justify) <= jconfig.max_line_cache
       THEN justifier' = [justifier EXCEPT
                              !.lines_to_justify = MapInsert(@, LineId(JCurrentLine),
                                                             JCurrentLine),
                              !.lines = Tail(@)]
       ELSE justifier' = AfterCall(justify(justifier, JCurrentLine))
    /\ UNCHANGED <<mode, input, fused, bitcall, tvars, cp_lit_map, fzn, jconfig>>

\* A style that, with the cache full, justifies a held assertion and caches
\* the one it has read.
StyleAssertionEvictHeld ==
    /\ Styling
    /\ IsLabelled(JCurrentLine)
    /\ Rule(JCurrentLine) = "a"
    /\ IF Cardinality(DOMAIN justifier.lines_to_justify) < jconfig.max_line_cache
       THEN justifier' = [justifier EXCEPT
                              !.lines_to_justify = MapInsert(@, LineId(JCurrentLine),
                                                             JCurrentLine),
                              !.lines = Tail(@)]
       ELSE IF DOMAIN justifier.lines_to_justify = {}
       THEN justifier' = AfterCall(justify(justifier, JCurrentLine))
       ELSE LET k == CHOOSE k \in DOMAIN justifier.lines_to_justify : TRUE IN
            justifier' = AfterCall(justify(
                             [justifier EXCEPT !.lines_to_justify =
                                  MapInsert(MapRemove(@, k), LineId(JCurrentLine),
                                            JCurrentLine)],
                             justifier.lines_to_justify[k]))
    /\ UNCHANGED <<mode, input, fused, bitcall, tvars, cp_lit_map, fzn, jconfig>>

StyleAssertion ==
    /\ Styling
    /\ IsLabelled(JCurrentLine)
    /\ Rule(JCurrentLine) = "a"
    /\ IF Cardinality(DOMAIN justifier.lines_to_justify) < jconfig.max_line_cache
       THEN justifier' = [justifier EXCEPT
                              !.lines_to_justify = MapInsert(@, LineId(JCurrentLine),
                                                             JCurrentLine),
                              !.lines = Tail(@)]
       ELSE justifier' = AfterCall(justify(justifier, JCurrentLine))
    /\ UNCHANGED <<mode, input, fused, bitcall, tvars, cp_lit_map, fzn, jconfig>>

\* "Not a labelled line": written as it is.
StyleOther ==
    /\ Styling
    /\ ~IsLabelled(JCurrentLine)
    /\ justifier' = [write_line(justifier, JCurrentLine) EXCEPT !.lines = Tail(@)]
    /\ UNCHANGED <<mode, input, fused, bitcall, tvars, cp_lit_map, fzn, jconfig>>

\* The reader is exhausted: style returns Ok.
StyleReturn ==
    /\ mode = "style" /\ justifier.pc = "style" /\ justifier.lines = <<>>
    /\ justifier' = [justifier EXCEPT !.pc = "Ok"]
    /\ UNCHANGED <<mode, input, fused, bitcall, tvars, cp_lit_map, fzn, jconfig>>

-----------------------------------------------------------------------------
(* Input proofs.                                                           *)

\* The longest proof body handed to the trimmer, and to the justifier.
MaxTrimBody == 3

MaxStyleBody == 2

\* Lines a proof body is made of.
TrimPool ==
    { "pseudo-Boolean proof version 2.0",
      "@1 a 1 x1 1 ~x2 >= 1 : @f0 : IntVarDef : ;",
      "@2 a 1 x2 >= 1 : @f0 : IntLinear : ;",
      "@3 pol @1 ;",
      "@4 pol @3 @2 + s ;",
      "@4 pol @3 @1 + ;",
      "del id @1 ;",
      "del id @1 @2 ;",
      "del id @2;",
      "* checkpoint" }

\* The last lines of a proof file: two UNSAT footers, a file cut before its
\* `end` line, and a footer whose conclusion is not UNSAT.
Footers ==
    { << "output NONE", "conclusion UNSAT : @3 ;", "end pseudo-Boolean proof" >>,
      << "output NONE", "conclusion UNSAT : @4 ;", "end pseudo-Boolean proof" >>,
      << "output NONE", "conclusion UNSAT : @3 ;" >>,
      << "output NONE", "conclusion NONE", "end pseudo-Boolean proof" >> }

Bodies(pool, n) == UNION { [1..k -> pool] : k \in 0..n }

TrimmerConfigs == [eager_deletion : BOOLEAN, lit_deletion : BOOLEAN]

MaxCache == 2

JustifierConfigs == [read_forwards : BOOLEAN, max_line_cache : 0..MaxCache]

IntLit(n) == [t |-> "int", v |-> n]

IdLit(id) == [t |-> "id", v |-> id]

ArrayArg(contents) == [kind |-> "array", contents |-> contents, lit |-> IntLit(0)]

LiteralArg(l) == [kind |-> "literal", contents |-> <<>>, lit |-> l]

IntDomain(intervals) == [domain |-> [kind |-> "int", intervals |-> intervals]]

NoDomain == [domain |-> [kind |-> "none", intervals |-> <<>>]]

\* A FlatZinc model: V in 0..10, N in -3..5, B in 0..1, T in 0..2, W without a
\* domain; constraint 0 is int_lin_le([2,-1],[V,B],3), constraint 1 is
\* int_lin_eq(cs,[V,N],3) with cs = [2,-1], constraint 2 is not linear.
Fzn ==
    [variables |-> [V |-> IntDomain(<< <<0, 10>> >>),
                    N |-> IntDomain(<< <<-3, 5>> >>),
                    B |-> IntDomain(<< <<0, 1>> >>),
                    T |-> IntDomain(<< <<0, 0>>, <<2, 2>> >>),
                    W |-> NoDomain],
     arrays |-> [cs |-> [contents |-> <<IntLit(2), IntLit(-1)>>]],
     constraints |->
        << [id |-> "int_lin_le",
            args |-> <<ArrayArg(<<IntLit(2), IntLit(-1)>>),
                       ArrayArg(<<IdLit("V"), IdLit("B")>>),
                       LiteralArg(IntLit(3))>>],
           [id |-> "int_lin_eq",
            args |-> <<LiteralArg(IdLit("cs")),
                       ArrayArg(<<IdLit("V"), IdLit("N")>>),
                       LiteralArg(IntLit(3))>>],
           [id |-> "int_ne",
            args |-> <<LiteralArg(IdLit("V")), LiteralArg(IdLit("B"))>>] >>]

Condition(name, operator, value) ==
    [type |-> "condition", name |-> name, operator |-> operator, value |-> value]

Boolvar(name) == [type |-> "boolvar", name |-> name, operator |-> "", value |-> ""]

\* Literal maps for the PB variables x1 and x2 of the proofs below.
LitMaps ==
    { [x1 |-> Condition("V", "<", "5"), x2 |-> Condition("V", ">=", "3")],
      [x1 |-> Condition("V", "==", "5"), x2 |-> Condition("V", ">=", "3")],
      [x1 |-> Boolvar("B=1"), x2 |-> Condition("N", "<", "0")],
      [x1 |-> Boolvar("W=1"), x2 |-> Condition("V", ">=", "3")],
      [x1 |-> Boolvar("T=1"), x2 |-> Condition("B", ">=", "1")],
      [x2 |-> Condition("V", "<", "5")] }

\* Lines a proof handed to the justifier is made of.
StylePool ==
    { "@1 a 1 x1 1 ~x2 >= 1 : @f0 : IntVarDef : ;",
      "@2 a 1 x2 >= 1 : @f0 : IntLinear : ;",
      "@2 a 1 ~x1 >= 1 : @f1 : IntLinear : ;",
      "@1 a 1 x1 >= 1 : @f0 : Foo : ;",
      "@2 a 1 x2 >= 1 : @f0 ;",
      "@3 pol @1 @2 + ;",
      "@5 pol @1 2 * ;",
      "@4 rup 1 x1 >= 1 ;",
      "* checkpoint" }

\* A trimmer that is not running.
TrimmerIdle ==
    /\ config = [eager_deletion |-> FALSE, lit_deletion |-> FALSE]
    /\ lines = 0
    /\ marked_for_output = {}
    /\ marked_for_deletion = {}
    /\ lits_seen = {}
    /\ out = <<>>
    /\ tpc = "idle"
    /\ last = ""

\* A justifier that reads every file forwards.
with_config_forwards(file, cfg) ==
    [lines |-> file,
     out |-> <<>>,
     lines_to_justify |-> <<>>,
     defined_lits |-> {},
     defined_bounds |-> {},
     calls |-> <<>>,
     pc |-> "style"]

\* Justifier::with_config on a file.
with_config(file, cfg) ==
    [lines |-> IF cfg.read_forwards THEN file ELSE Reverse(file),
     out |-> <<>>,
     lines_to_justify |-> <<>>,
     defined_lits |-> {},
     defined_bounds |-> {},
     calls |-> <<>>,
     pc |-> "style"]

\* A justifier that is not running.
JustifierIdle ==
    /\ cp_lit_map = <<>>
    /\ jconfig = [read_forwards |-> FALSE, max_line_cache |-> 0]
    /\ justifier = [with_config(<<>>, jconfig) EXCEPT !.pc = "idle"]

\* main is not comparing two runs.
FusedOff == fused = [stage |-> "off", pc |-> "", out |-> <<>>]

\* The bit-width functions are not under test.
BitsOff == bitcall = [min |-> 0, max |-> 0, multiplier |-> 0, num_bits |-> <<>>, str |-> <<>>]

\* Trimmer::with_config on an input file.
InitTrim ==
    /\ mode = "trim"
    /\ input \in { b \o f : b \in Bodies(TrimPool, MaxTrimBody), f \in Footers }
    /\ config \in TrimmerConfigs
    /\ lines = Len(input)
    /\ marked_for_output = {}
    /\ marked_for_deletion = {}
    /\ lits_seen = {}
    /\ out = <<>>
    /\ tpc = "start"
    /\ last = ""
    /\ JustifierIdle
    /\ fzn = Fzn
    /\ FusedOff
    /\ BitsOff

\* The `style` command on an input file.
InitStyle ==
    /\ mode = "style"
    /\ input \in Bodies(StylePool, MaxStyleBody)
    /\ TrimmerIdle
    /\ cp_lit_map \in LitMaps
    /\ fzn = Fzn
    /\ jconfig \in JustifierConfigs
    /\ justifier = with_config(input, jconfig)
    /\ FusedOff
    /\ BitsOff

NextTrim ==
    \/ TrimFooter
    \/ TrimMarked
    \/ TrimUnmarked
    \/ TrimPreamble
    \/ TrimDelId
    \/ TrimOther
    \/ TrimReturn

SpecTrim == InitTrim /\ [][NextTrim]_vars

NextStyle ==
    \/ StylePanic
    \/ StylePol
    \/ StyleAssertion
    \/ StyleOther
    \/ StyleReturn

SpecStyle == InitStyle /\ [][NextStyle]_vars

-----------------------------------------------------------------------------
(* main.rs: trim-and-style, and trim followed by style --read-forwards.     *)

MaxFuseBody == 2

\* run_trimmer: --lit-deletion is ignored.
run_trimmer(trimmer_config) == [trimmer_config EXCEPT !.lit_deletion = FALSE]

\* reverse_file: the lines of the file, last line first.
reverse_file(file) == Reverse(file)

FuseLitMaps ==
    { [x1 |-> Condition("V", "<", "5"), x2 |-> Condition("V", ">=", "3")],
      [x1 |-> Boolvar("B=1"), x2 |-> Condition("N", "<", "0")] }

\* The trim-and-style command on an input file, without --read-forwards.
InitFuse ==
    /\ mode = "trim"
    /\ input \in { b \o f : b \in Bodies(TrimPool, MaxFuseBody), f \in Footers }
    /\ config \in { run_trimmer(c) : c \in TrimmerConfigs }
    /\ lines = Len(input)
    /\ marked_for_output = {}
    /\ marked_for_deletion = {}
    /\ lits_seen = {}
    /\ out = <<>>
    /\ tpc = "start"
    /\ last = ""
    /\ cp_lit_map \in FuseLitMaps
    /\ fzn = Fzn
    /\ jconfig \in [read_forwards : {FALSE}, max_line_cache : 0..MaxCache]
    /\ justifier = [with_config(<<>>, jconfig) EXCEPT !.pc = "idle"]
    /\ fused = [stage |-> "trim", pc |-> "", out |-> <<>>]
    /\ BitsOff

\* main, TrimAndStyle: run_trimmer returned Ok, run_justifier reads its output.
RunJustifier ==
    /\ mode = "trim" /\ tpc = "Ok" /\ fused.stage = "trim"
    /\ mode' = "style"
    /\ justifier' = with_config(out, jconfig)
    /\ fused' = [fused EXCEPT !.stage = "trim-and-style"]
    /\ UNCHANGED <<input, tvars, cp_lit_map, fzn, jconfig, bitcall>>

\* The same proof through main, Trim (run_trimmer, which gave `out`, then
\* reverse_file) and then through main, Style with --read-forwards; the result
\* of the trim-and-style run is kept in `fused`.
TrimThenStyle ==
    /\ mode = "style" /\ fused.stage = "trim-and-style"
    /\ justifier.pc # "style"
    /\ fused' = [stage |-> "trim, style", pc |-> justifier.pc, out |-> justifier.out]
    /\ jconfig' = [jconfig EXCEPT !.read_forwards = TRUE]
    /\ justifier' = with_config(reverse_file(out), jconfig')
    /\ UNCHANGED <<mode, input, tvars, cp_lit_map, fzn, bitcall>>

\* The trimmer writes a labelled line only when its rule is allowed, so the
\* justifier's assert! on the rule cannot fail here.
NextFuse ==
    \/ TrimFooter
    \/ TrimMarked
    \/ TrimUnmarked
    \/ TrimPreamble
    \/ TrimDelId
    \/ TrimOther
    \/ TrimReturn
    \/ RunJustifier
    \/ StylePol
    \/ StyleAssertion
    \/ StyleOther
    \/ StyleReturn
    \/ TrimThenStyle

SpecFuse == InitFuse /\ [][NextFuse]_vars

-----------------------------------------------------------------------------
(* The bit-width functions on their own.                                   *)

BitsSpan == 8

Multipliers == {-1, 1, 2}

\* A FlatZinc model whose variable V has the domain min..max.
BitsFzn(min, max) ==
    [variables |-> [V |-> IntDomain(<< <<min, max>> >>)],
     arrays |-> <<>>,
     constraints |-> <<>>]

InitBits ==
    /\ mode = "bitcall"
    /\ input = <<>>
    /\ TrimmerIdle
    /\ JustifierIdle
    /\ FusedOff
    /\ \E min \in -BitsSpan..BitsSpan : \E max \in min..BitsSpan :
         \E multiplier \in Multipliers :
           /\ bitcall = [min |-> min, max |-> max, multiplier |-> multiplier,
                      num_bits |-> <<>>, str |-> <<>>]
           /\ fzn = BitsFzn(min, max)

\* A call of num_bits_for_range on the domain of V.
NumBitsForRange ==
    /\ mode = "bitcall" /\ bitcall.num_bits = <<>>
    /\ bitcall' = [bitcall EXCEPT !.num_bits = <<num_bits_for_range(bitcall.min, bitcall.max)>>]
    /\ UNCHANGED <<mode, input, tvars, jvars, fused>>

\* A call of cp_var_bits_str on V.
CpVarBitsStr ==
    /\ mode = "bitcall" /\ bitcall.str = <<>>
    /\ bitcall' = [bitcall EXCEPT !.str = <<cp_var_bits_str("V", bitcall.multiplier)>>]
    /\ UNCHANGED <<mode, input, tvars, jvars, fused>>

NextBits ==
    \/ NumBitsForRange
    \/ CpVarBitsStr

SpecBits == InitBits /\ [][NextBits]_vars

-----------------------------------------------------------------------------
(* Justifier::style on longer proofs: the hold-back cache.                 *)

MaxCacheBody == 3

\* Three assertions with IDs of their own, two pol lines that name them, and
\* a comment.
CachePool ==
    { "@1 a 1 x1 1 ~x2 >= 1 : @f0 : IntVarDef : ;",
      "@2 a 1 x2 >= 1 : @f0 ;",
      "@6 a 1 x2 >= 1 : @f0 : Foo : ;",
      "@3 pol @1 @2 + ;",
      "@4 pol @3 @1 + ;",
      "* checkpoint" }

CacheLitMaps ==
    { [x1 |-> Condition("V", "<", "5"), x2 |-> Condition("V", ">=", "3")] }

\* The `style` command on a proof made of the lines of CachePool.
InitCache ==
    /\ mode = "style"
    /\ input \in Bodies(CachePool, MaxCacheBody)
    /\ TrimmerIdle
    /\ cp_lit_map \in CacheLitMaps
    /\ fzn = Fzn
    /\ jconfig \in JustifierConfigs
    /\ justifier = with_config(input, jconfig)
    /\ FusedOff
    /\ BitsOff

NextCache ==
    \/ StylePol
    \/ StyleAssertion
    \/ StyleOther
    \/ StyleReturn

SpecCache == InitCache /\ [][NextCache]_vars

-----------------------------------------------------------------------------
(* ensure_lit_defined on its own.                                          *)

\* The values of the domains and of the literal map lie in -DefineSpan..DefineSpan.
DefineSpan == 2

\* The number of calls of ensure_lit_defined in a run.
MaxDefineCalls == 3

DefineValues == (0 - DefineSpan)..DefineSpan

\* A FlatZinc model whose variable V has the given domain.
DefineFzn(domain) == [variables |-> [V |-> domain], arrays |-> <<>>, constraints |-> <<>>]

DefineDomains ==
    { IntDomain(<< <<min, max>> >>) : min \in DefineValues, max \in DefineValues } \cup {NoDomain}

\* What the literal map holds for x1: a condition on V, a Boolvar `V=k`, or a
\* Boolvar whose name has no `=`.
DefineData ==
    { Condition("V", operator, ToString(value)) :
          operator \in {"<", ">=", "==", "!="}, value \in DefineValues }
      \cup { Boolvar("V=" \o ToString(k)) : k \in DefineValues }
      \cup { Boolvar("V") }

DefineLits == { [var |-> "x1", neg |-> FALSE], [var |-> "x1", neg |-> TRUE] }

InitDefine ==
    /\ mode = "define"
    /\ input = <<>>
    /\ TrimmerIdle
    /\ \E data \in DefineData : cp_lit_map = [x1 |-> data]
    /\ \E domain \in DefineDomains :
         /\ domain.domain.kind = "int" =>
              domain.domain.intervals[1][1] <= domain.domain.intervals[1][2]
         /\ fzn = DefineFzn(domain)
    /\ jconfig = [read_forwards |-> FALSE, max_line_cache |-> 0]
    /\ justifier = [with_config(<<>>, jconfig) EXCEPT !.pc = "idle"]
    /\ FusedOff
    /\ BitsOff

LitCalls ==
    { k \in 1..Len(justifier.calls) : justifier.calls[k].fn = "ensure_lit_defined" }

\* A call of ensure_lit_defined on x1 or ~x1.
EnsureLitDefined ==
    /\ mode = "define"
    /\ Cardinality(LitCalls) < MaxDefineCalls
    /\ \E lit \in DefineLits : justifier' = ensure_lit_defined(justifier, lit).js
    /\ UNCHANGED <<mode, input, fused, bitcall, tvars, cp_lit_map, fzn, jconfig>>

NextDefine == EnsureLitDefined

SpecDefine == InitDefine /\ [][NextDefine]_vars

-----------------------------------------------------------------------------
(* The family justifiers on a model with a zero coefficient.               *)

MaxLinearBody == 2

\* V in 0..10, N in -3..5, B in 0..1; constraint 0 is
\* int_lin_le([2,-1,0],[V,B,N],3), constraint 1 is int_lin_eq([2,-1,0],[V,B,N],3).
LinearFzn ==
    [variables |-> [V |-> IntDomain(<< <<0, 10>> >>),
                    N |-> IntDomain(<< <<-3, 5>> >>),
                    B |-> IntDomain(<< <<0, 1>> >>)],
     arrays |-> <<>>,
     constraints |->
        << [id |-> "int_lin_le",
            args |-> <<ArrayArg(<<IntLit(2), IntLit(-1), IntLit(0)>>),
                       ArrayArg(<<IdLit("V"), IdLit("B"), IdLit("N")>>),
                       LiteralArg(IntLit(3))>>],
           [id |-> "int_lin_eq",
            args |-> <<ArrayArg(<<IntLit(2), IntLit(-1), IntLit(0)>>),
                       ArrayArg(<<IdLit("V"), IdLit("B"), IdLit("N")>>),
                       LiteralArg(IntLit(3))>>] >>]

\* Literal maps for x1, x2, x3; the last has no entry for x3.
LinearLitMaps ==
    { [x1 |-> Condition("V", "<", "5"), x2 |-> Condition("B", ">=", "1"),
       x3 |-> Condition("N", "<", "0")],
      [x1 |-> Boolvar("B=1"), x2 |-> Condition("V", ">=", "3"),
       x3 |-> Condition("N", "<", "0")],
      [x1 |-> Condition("V", "<", "5"), x2 |-> Condition("B", ">=", "1")] }

LinearPool ==
    { "@1 a 1 x1 1 x2 1 x3 >= 1 : @f0 : IntVarDef : ;",
      "@2 a 1 x1 >= 1 : @f0 : IntLinear : ;",
      "@3 a 1 ~x1 1 x2 >= 1 : @f1 : IntLinear : ;",
      "@5 a 1 x1 >= 1 : @f1 : IntLinear : ;",
      "@4 pol @2 @3 + @5 + ;" }

InitLinear ==
    /\ mode = "style"
    /\ input \in Bodies(LinearPool, MaxLinearBody)
    /\ TrimmerIdle
    /\ cp_lit_map \in LinearLitMaps
    /\ fzn = LinearFzn
    /\ jconfig \in JustifierConfigs
    /\ justifier = with_config(input, jconfig)
    /\ FusedOff
    /\ BitsOff

NextLinear ==
    \/ StylePol
    \/ StyleAssertion
    \/ StyleReturn

SpecLinear == InitLinear /\ [][NextLinear]_vars

-----------------------------------------------------------------------------
(* The trimmer on malformed proofs.                                        *)

MaxFatalBody == 3

FatalPool ==
    { "pseudo-Boolean proof version 2.0",
      "@1 a 1 x1 >= 1 : @f0 : IntVarDef : ;",
      "@2 a 1 x2 >= 1 : @f0 : IntLinear : ;",
      "@3 pol @1 @2 2 * + ;",
      "@3 pol @1 @2 + ;",
      "del id @1 ;",
      "* checkpoint" }

\* An UNSAT footer, a footer whose conclusion is not UNSAT, and a footer
\* whose third line from the end is not an `output` line.
FatalFooters ==
    { << "output NONE", "conclusion UNSAT : @3 ;", "end pseudo-Boolean proof" >>,
      << "output NONE", "conclusion NONE", "end pseudo-Boolean proof" >>,
      << "* checkpoint", "conclusion UNSAT : @3 ;", "end pseudo-Boolean proof" >> }

InitFatal ==
    /\ mode = "trim"
    /\ input \in { b \o f : b \in Bodies(FatalPool, MaxFatalBody), f \in FatalFooters }
    /\ config \in TrimmerConfigs
    /\ lines = Len(input)
    /\ marked_for_output = {}
    /\ marked_for_deletion = {}
    /\ lits_seen = {}
    /\ out = <<>>
    /\ tpc = "start"
    /\ last = ""
    /\ JustifierIdle
    /\ fzn = Fzn
    /\ FusedOff
    /\ BitsOff

NextFatal ==
    \/ TrimFooter
    \/ TrimMarked
    \/ TrimUnmarked
    \/ TrimPreamble
    \/ TrimDelId
    \/ TrimOther
    \/ TrimReturn

SpecFatal == InitFatal /\ [][NextFatal]_vars

-----------------------------------------------------------------------------
(* The trimmer with lit_deletion on, then the justifier on its output.     *)

MaxLitDelBody == 2

\* Trimmer::with_config with lit_deletion on; the justifier is not built yet.
InitLitDel ==
    /\ mode = "trim"
    /\ input \in { b \o f : b \in Bodies(TrimPool, MaxLitDelBody), f \in Footers }
    /\ config \in { c \in TrimmerConfigs : c.lit_deletion }
    /\ lines = Len(input)
    /\ marked_for_output = {}
    /\ marked_for_deletion = {}
    /\ lits_seen = {}
    /\ out = <<>>
    /\ tpc = "start"
    /\ last = ""
    /\ cp_lit_map \in FuseLitMaps
    /\ fzn = Fzn
    /\ jconfig \in [read_forwards : {FALSE}, max_line_cache : 0..MaxCache]
    /\ justifier = [with_config(<<>>, jconfig) EXCEPT !.pc = "idle"]
    /\ FusedOff
    /\ BitsOff

\* Justifier::with_config on the file trim wrote, which it reads from the end.
StyleTrimmed ==
    /\ mode = "trim" /\ tpc = "Ok" /\ fused.stage = "off"
    /\ mode' = "style"
    /\ justifier' = with_config(out, jconfig)
    /\ UNCHANGED <<input, tvars, cp_lit_map, fzn, jconfig, fused, bitcall>>

NextLitDel ==
    \/ TrimFooter
    \/ TrimMarked
    \/ TrimUnmarked
    \/ TrimPreamble
    \/ TrimDelId
    \/ TrimOther
    \/ TrimReturn
    \/ StyleTrimmed
    \/ StylePol
    \/ StyleAssertion
    \/ StyleOther
    \/ StyleReturn

SpecLitDel == InitLitDel /\ [][NextLitDel]_vars



-----------------------------------------------------------------------------
(* Properties of the trimmer.                                              *)

Range(f) == { f[i] : i \in 1..Len(f) }

\* The lines before the three footer lines.
BodyLines == 1..(Len(input) - 3)

IsPol(line) == IsLabelled(line) /\ Rule(line) \in {"pol", "p"}

\* The operands of a pol line.
PolOperands(line) ==
    LET t == Split(line, " ") IN { t[i] : i \in 3..Len(t) } \ {"+", "s", ";"}

\* No pol line names the ID of a labelled line at or after it in the file.
DefinedBeforeUse ==
    \A i \in BodyLines : IsPol(input[i]) =>
        \A k \in BodyLines : (k >= i /\ IsLabelled(input[k])) =>
            LineId(input[k]) \notin PolOperands(input[i])

C7_MissingConclusion ==
    (mode = "trim" /\ tpc # "start"
        /\ ~StartsWith(input[Len(input)], "end pseudo-Boolean")) =>
        (tpc = "MissingConclusion" /\ out = <<>> /\ marked_for_output = {})

C7_Witness ==
    /\ tpc = "MissingConclusion"
    /\ StartsWith(input[Len(input)], "conclusion UNSAT")

\* A line that is not labelled, not a preamble line and not a `del id` line.
IsComment(line) ==
    ~IsLabelled(line) /\ ~IsPreamble(line) /\ ~StartsWith(line, "del id")

\* C8 as stated: when trim returns Ok, every comment line of the input is in the
\* output.
C8_CommentsPassThrough ==
    tpc = "Ok" => \A i \in BodyLines : IsComment(input[i]) => input[i] \in Range(out)

\* C8, amended: a line that is not labelled, not a preamble line and not a
\* `del id` line is ignored: it is never written to the output.
C8_CommentsIgnored ==
    \A i \in BodyLines : IsComment(input[i]) => input[i] \notin Range(out)

\* The trimmer has read a comment line and gone on.
C8_Witness ==
    /\ tpc \in {"scan", "Ok"}
    /\ last = "* checkpoint"


-----------------------------------------------------------------------------
(* Properties of the justifier.                                            *)

Tokens(line) == NonEmpty(Split(line, " "))

\* The first token of a line: the ID of a labelled line.
Label(line) == LET i == FindFrom(line, " ", 1) IN
               IF i = 0 THEN line ELSE SubSeq(line, 1, i - 1)

\* The ID, the rule and the constraint of a proof step.
StepOf(line) ==
    LET head == SplitN2(Trim(trim_sc(Trim(Split(line, ":")[1]))), " ")
        tail == IF Len(head) < 2 THEN <<"">> ELSE SplitN2(head[2], " ")
    IN [id |-> head[1],
        rule |-> tail[1],
        constraint |-> IF Len(tail) < 2 THEN parse_constraint("")
                       ELSE parse_constraint(tail[2] \o " ")]

\* The family name of an assertion line, "" when it has none.
FamilyOf(line) ==
    LET p == parse_assertion_line(line) IN
    IF p.ok /\ p.has_name THEN trim_sc(Trim(p.name)) ELSE ""

JustifyCalls == { c \in Range(justifier.calls) : c.fn = "justify" }

FailedPrefix == "% PBarber Justifier failed to justify the following:"

\* The ID of a literal definition, a bound axiom or a linear encoding.
IsDefinitionId(t) ==
    \/ StartsWith(t, "@lf") \/ StartsWith(t, "@lr")
    \/ StartsWith(t, "@lb") \/ StartsWith(t, "@ub")
    \/ (StartsWith(t, "@f") /\ (EndsWith(t, "_le") \/ EndsWith(t, "_ge")))

\* The definition IDs a line refers to: those after its first token.
References(line) ==
    LET t == Tokens(line) IN { t[i] : i \in { k \in 2..Len(t) : IsDefinitionId(t[k]) } }

C3_DefinitionPrecedence ==
    \A i \in 1..Len(justifier.out) :
        \A d \in References(justifier.out[i]) :
            \E j \in 1..(i - 1) : Label(justifier.out[j]) = d

\* A pol line that refers to a linear encoding, a literal definition and a
\* bound axiom.
C3_Witness ==
    \E i \in 1..Len(justifier.out) :
        /\ StartsWith(justifier.out[i], "pol ")
        /\ \E d \in References(justifier.out[i]) : StartsWith(d, "@f")
        /\ \E d \in References(justifier.out[i]) : StartsWith(d, "@l")
        /\ \E d \in References(justifier.out[i]) : StartsWith(d, "@ub")

\* C4: no JustificationError leaves justify, and style does not return one.
C4_JustificationErrorCaught ==
    /\ justifier.pc # "JustificationError"
    /\ \A c \in JustifyCalls : c.kind # "JustificationError"

BoundsCalls(v) ==
    { k \in 1..Len(justifier.calls) :
        justifier.calls[k].fn = "ensure_bounds_defined" /\ justifier.calls[k].arg = v }

\* C5: at most one `red` line per literal and at most two bound lines per CP
\* variable are written, and the first ensure_bounds_defined(v) that returns Ok
\* writes the `@lb<v>` line and then the `@ub<v>` line.
C5_IdempotentDefinitions ==
    /\ \A d \in {"@lfx1", "@lrx1", "@lfx2", "@lrx2"} :
         Cardinality({ i \in 1..Len(justifier.out) :
                         Label(justifier.out[i]) = d }) <= 1
    /\ \A v \in DOMAIN fzn.variables :
         /\ Cardinality({ i \in 1..Len(justifier.out) :
                            Label(justifier.out[i]) \in {"@lb" \o v, "@ub" \o v} }) <= 2
         /\ \A k \in BoundsCalls(v) :
              (justifier.calls[k].ok
                 /\ \A j \in BoundsCalls(v) : j < k => ~justifier.calls[j].ok) =>
              /\ justifier.calls[k].end = justifier.calls[k].start + 2
              /\ Label(justifier.out[justifier.calls[k].start + 1]) = "@lb" \o v
              /\ Label(justifier.out[justifier.calls[k].start + 2]) = "@ub" \o v

-----------------------------------------------------------------------------
(* Properties of the bit-width functions.                                  *)

\* The coefficients of a bit string `c1 V_b<i1> c2 V_b<i2> ...`.
Coefficients(str) ==
    LET t == Tokens(str) IN [i \in 1..(Len(t) \div 2) |-> ParseInt(t[2 * i - 1]).v]

RECURSIVE SumOver(_, _)
SumOver(coefs, S) ==
    IF S = {} THEN 0
    ELSE LET i == CHOOSE j \in S : TRUE IN coefs[i] + SumOver(coefs, S \ {i})

\* Some assignment of the bits gives every value of min..max.
Covers(str, min, max) ==
    \A v \in min..max :
        \E S \in SUBSET (1..Len(Coefficients(str))) : SumOver(Coefficients(str), S) = v

\* The bit vector cp_var_bits_str writes for V when num_bits is k.
BitVector(k) == BitsStr("V", 1, bitcall.min, k)

\* The least num_bits cp_var_bits_str can work with.
LeastBits == IF bitcall.min < 0 THEN 1 ELSE 0

\* The bit vector written for num_bits_for_range(min, max) represents every
\* integer of min..max.
BitVectorCovers ==
    bitcall.num_bits # <<>> =>
        Covers(BitVector(bitcall.num_bits[1]), bitcall.min, bitcall.max)

\* C6: num_bits_for_range(min, max) is the smallest k for which the bit vector
\* cp_var_bits_str writes represents every integer of min..max.
C6_SmallestBitWidth ==
    bitcall.num_bits # <<>> =>
        /\ Covers(BitVector(bitcall.num_bits[1]), bitcall.min, bitcall.max)
        /\ \A k \in LeastBits..(bitcall.num_bits[1] - 1) :
             ~Covers(BitVector(k), bitcall.min, bitcall.max)

-----------------------------------------------------------------------------
(* Properties of main.                                                     *)

-----------------------------------------------------------------------------
(* Further properties of the justifier.                                    *)

\* The bit variables of the CP variable v that a line names.
BitTokens(line, v) == { t \in Range(Tokens(line)) : StartsWith(t, v \o "_b") }

\* The domain of v is min..max with min >= 0 and max = 2^k - 1.
ExactWidth(v, k) ==
    LET mm == get_min_max_for_var(v) IN
    mm.ok /\ mm.val[1] >= 0 /\ mm.val[2] = Pow2(k) - 1

\* C11: at every point of the output, a CP variable whose bit variables a line
\* names has min >= 0 and as many bits in that line as cover its domain
\* exactly, or its bound lines `@lb<V>` and `@ub<V>` have been written.
C11_BoundsEnforced ==
    \A i \in 1..Len(justifier.out) :
        \A v \in DOMAIN fzn.variables :
            BitTokens(justifier.out[i], v) # {} =>
                \/ ExactWidth(v, Cardinality(BitTokens(justifier.out[i], v)))
                \/ /\ \E j \in 1..i : Label(justifier.out[j]) = "@lb" \o v
                   /\ \E j \in 1..i : Label(justifier.out[j]) = "@ub" \o v

\* The lines of the input in the order the justifier reads them.
ReadOrder == IF jconfig.read_forwards THEN input ELSE Reverse(input)

IsAssertion(line) == IsLabelled(line) /\ Rule(line) = "a"

\* No pol line read after the i-th line names the ID of that line.
UnusedAfter(i) ==
    \A k \in (i + 1)..Len(ReadOrder) :
        IsPol(ReadOrder[k]) => LineId(ReadOrder[i]) \notin PolOperands(ReadOrder[k])

\* C12 as stated: an `a` line whose ID no later pol line names is never
\* justified, whatever max_line_cache is.
C12_UnusedAssertionsDropped ==
    \A i \in 1..Len(ReadOrder) :
        (IsAssertion(ReadOrder[i])
            /\ \A k \in 1..Len(ReadOrder) : ReadOrder[k] = ReadOrder[i] => UnusedAfter(k)) =>
        \A c \in JustifyCalls : c.arg # ReadOrder[i]

\* C12, amended: an `a` line read while the cache has room is cached and
\* writes nothing; justify is called on an `a` line only when it is read with
\* the cache full, or when it is in the cache and the pol line being read
\* names its ID.
C12_JustifiedWhenUncachedOrUsed ==
    [][ /\ (Styling /\ IsAssertion(JCurrentLine)
              /\ Cardinality(DOMAIN justifier.lines_to_justify) < jconfig.max_line_cache) =>
            /\ justifier'.out = justifier.out
            /\ justifier'.calls = justifier.calls
        /\ \A k \in (Len(justifier.calls) + 1)..Len(justifier'.calls) :
             justifier'.calls[k].fn = "justify" =>
               LET arg == justifier'.calls[k].arg IN
               \/ /\ IsAssertion(JCurrentLine)
                  /\ arg = JCurrentLine
                  /\ Cardinality(DOMAIN justifier.lines_to_justify)
                       >= jconfig.max_line_cache
               \/ /\ IsPol(JCurrentLine)
                  /\ LineId(arg) \in PolOperands(JCurrentLine)
                  /\ LineId(arg) \in DOMAIN justifier.lines_to_justify
                  /\ justifier.lines_to_justify[LineId(arg)] = arg ]_vars

\* The pass is over: a cached assertion that no pol line named was dropped,
\* and the other line of the input was written.
C12_Witness ==
    /\ justifier.pc = "Ok" /\ jconfig.max_line_cache > 0
    /\ \E i \in 1..Len(input) :
         /\ IsAssertion(input[i])
         /\ \A c \in JustifyCalls : c.arg # input[i]
    /\ JustifyCalls = {}
    /\ justifier.out # <<>>

-----------------------------------------------------------------------------
(* Further properties of the bit-width functions.                          *)

\* The bit string C13 describes for k bits: the sign term `-m*2^k V_bk` when
\* min < 0, then the k terms of V_b(k-1) ... V_b0 with the coefficients m*2^i.
BitsAsSpecified(cp_var, multiplier, min, k) ==
    Trim((IF min < 0
          THEN ToString(Pow2(k) * (0 - multiplier)) \o " " \o cp_var \o "_b" \o ToString(k)
          ELSE "")
         \o BitTerms(cp_var, multiplier, k - 1))

\* C13: cp_var_bits_str(V, m) returns the k terms V_b(k-1) ... V_b0 for
\* k = num_bits_for_range(min, max), after the sign term V_bk when min < 0.
C13_BitsAsSpecified ==
    bitcall.str # <<>> =>
        /\ bitcall.str[1].ok
        /\ bitcall.str[1].val
             = BitsAsSpecified("V", bitcall.multiplier, bitcall.min,
                               num_bits_for_range(bitcall.min, bitcall.max))

-----------------------------------------------------------------------------
(* Properties of the family justifiers.                                    *)

\* The justify calls on lines of a family that wrote no failure comment.
JustifiedBy(family) ==
    { c \in JustifyCalls :
        /\ c.ok /\ FamilyOf(c.arg) = family
        /\ c.end > c.start + 1
        /\ ~StartsWith(justifier.out[c.end - 1], FailedPrefix) }

\* The text of a constraint as the justifier writes it.
ConstraintText(line) == trim_sc(to_pretty_string(StepOf(line).constraint))

\* The ID ensure_lit_defined returns for a literal during the justify call c:
\* its definition ID, but the empty string for a Boolvar literal that this
\* call defines.
ReturnedId(c, lit) ==
    IF /\ cp_lit_map[lit.var].type = "boolvar"
       /\ \E i \in (c.start + 1)..c.end : Label(justifier.out[i]) = definition_id(lit)
    THEN ""
    ELSE definition_id(lit)

RECURSIVE Joined(_, _)
\* The IDs, each followed by sep.
Joined(ids, sep) ==
    IF ids = <<>> THEN "" ELSE Head(ids) \o sep \o Joined(Tail(ids), sep)

\* `pol <id1> <id2> + ... ;`: the sum in reverse Polish notation.
PolishSum(ids) ==
    IF ids = <<>> THEN "pol ;"
    ELSE "pol " \o Head(ids) \o " " \o Joined(Tail(ids), " + ") \o ";"

\* `pol <id1>  + <id2> ;`: the sum as C14 writes it.
InfixSum(ids) ==
    IF ids = <<>> THEN "pol ;"
    ELSE IF Len(ids) = 1 THEN "pol " \o ids[1] \o " ;"
    ELSE "pol " \o ids[1] \o "  + " \o ids[2] \o " ;"

FznIdOf(line) == Split(Trim(parse_assertion_line(line).antecedents_str), " ")[1]

FznConstraintOf(line) == get_fzn_constraint(FznIdOf(line)).val

\* The lines of the output that the call c wrote.
Span(c) == (c.start + 1)..c.end

IsDefinitionLine(line) ==
    \/ StartsWith(line, "@lf") \/ StartsWith(line, "@lr")
    \/ StartsWith(line, "@lb") \/ StartsWith(line, "@ub")

\* C15: a justified IntLinear assertion writes, in this order, the axiom
\* `@f<n>_le a ... <= rhs :: <name>;` (and for int_lin_eq then the axiom
\* `@f<n>_ge a ... >= rhs :: <name>;`), the definitions it needs, one pol line
\* seeded with `@f<n>_le` (and for int_lin_eq then one seeded with
\* `@f<n>_ge`), and last the `rup` line with the assertion's ID and constraint.
C15_IntLinearOrder ==
    \A c \in JustifiedBy("IntLinear") :
        LET le_id == FznIdOf(c.arg) \o "_le"
            ge_id == FznIdOf(c.arg) \o "_ge"
            name == FznConstraintOf(c.arg).id
            rhs == ToString(FznConstraintOf(c.arg).args[3].lit.v)
            eq == name = "int_lin_eq"
            axioms == IF eq THEN 2 ELSE 1
            o == justifier.out
        IN
        /\ name \in {"int_lin_le", "int_lin_eq"}
        /\ c.end >= c.start + 2 * axioms + 1
        /\ StartsWith(o[c.start + 1], le_id \o " a ")
        /\ EndsWith(o[c.start + 1], " <= " \o rhs \o " :: " \o name \o ";")
        /\ eq => /\ StartsWith(o[c.start + 2], ge_id \o " a ")
                 /\ EndsWith(o[c.start + 2], " >= " \o rhs \o " :: " \o name \o ";")
        /\ \A i \in (c.start + axioms + 1)..(c.end - axioms - 1) : IsDefinitionLine(o[i])
        /\ StartsWith(o[c.end - axioms], "pol " \o le_id \o " ")
        /\ eq => StartsWith(o[c.end - 1], "pol " \o ge_id \o " ")
        /\ StepOf(o[c.end]).id = StepOf(c.arg).id
        /\ StepOf(o[c.end]).rule = "rup"
        /\ StepOf(o[c.end]).constraint = StepOf(c.arg).constraint

\* An int_lin_le assertion and an int_lin_eq assertion were justified.
C15_Witness ==
    /\ \E c \in JustifiedBy("IntLinear") : FznConstraintOf(c.arg).id = "int_lin_le"
    /\ \E c \in JustifiedBy("IntLinear") :
         /\ FznConstraintOf(c.arg).id = "int_lin_eq"
         /\ \E i \in Span(c) : StartsWith(justifier.out[i], "@ubN")

-----------------------------------------------------------------------------
(* Properties of error handling in the justifier.                          *)

\* The literals of an assertion line that have no entry in the literal map.
UnmappedLits(line) ==
    { l \in Range(StepOf(line).constraint.lits) : l.var \notin DOMAIN cp_lit_map }

\* C16: a literal without a literal-map entry never ends the pass.  Outside a
\* family justifier it is skipped and justify returns Ok; inside IntVarDef or
\* IntLinear justify still returns Ok, having written the failure comment and
\* the bare assertion.
C16_LookupFailureHandled ==
    /\ justifier.pc # "LiteralLookupError"
    /\ \A c \in JustifyCalls :
         UnmappedLits(c.arg) # {} =>
            /\ c.kind # "LiteralLookupError"
            /\ (c.ok /\ FamilyOf(c.arg) \in {"IntVarDef", "IntLinear"}) =>
                  /\ c.end > c.start + 1
                  /\ StartsWith(justifier.out[c.end - 1], FailedPrefix)

\* The lines the justifier has read so far.
LinesRead == SubSeq(ReadOrder, 1, Len(ReadOrder) - Len(justifier.lines))

\* A pol line with an operand that does not start with `@`.
HasBadOperand(line) ==
    IsPol(line) /\ \E t \in PolOperands(line) : ~StartsWith(t, "@")

\* C17: a pol line with an operand that does not start with `@` does not end
\* the pass: style does not return UnexpectedLineStart, and a comment has been
\* written once such a line has been read.
C17_BadOperandNotFatal ==
    /\ justifier.pc # "UnexpectedLineStart"
    /\ (\E i \in 1..Len(LinesRead) : HasBadOperand(LinesRead[i])) =>
           \E k \in 1..Len(justifier.out) : StartsWith(justifier.out[k], "%")

-----------------------------------------------------------------------------
(* Further properties of the trimmer.                                      *)

\* The operands of a pol line, in the order they are written.
OperandSeq(line) ==
    LET t == Split(line, " ") IN
    SelectSeq(SubSeq(t, 3, Len(t)), LAMBDA x : x \notin {"+", "s", ";"})

\* The trimmer is about to read a live pol line whose operands all start
\* with `@`.
AtLivePol ==
    /\ Scanning
    /\ IsPol(CurrentLine)
    /\ LineId(CurrentLine) \in marked_for_output
    /\ \A o \in Range(OperandSeq(CurrentLine)) : StartsWith(o, "@")

\* The first occurrences of the operands of the pol line that are not live
\* yet and are to be deleted, in order.
OperandsToDelete ==
    LET ops == OperandSeq(CurrentLine) IN
    SelectSeq([i \in 1..Len(ops) |->
                  IF /\ ops[i] \notin marked_for_output
                     /\ \A j \in 1..(i - 1) : ops[j] # ops[i]
                     /\ (config.eager_deletion \/ ops[i] \in marked_for_deletion)
                  THEN ops[i] ELSE ""],
              LAMBDA o : o # "")

\* C18: on a live pol line the trimmer writes `del id o ;` for each operand o
\* that is not live yet, exactly when eager_deletion is on or o is tagged for
\* deferred deletion, then the pol line; every operand is live afterwards.
C18_DeletionsBeforePol ==
    [][ AtLivePol =>
          /\ out' = out
                \o [i \in 1..Len(OperandsToDelete) |->
                       "del id " \o OperandsToDelete[i] \o " ;"]
                \o <<CurrentLine>>
          /\ marked_for_output' = marked_for_output \cup Range(OperandSeq(CurrentLine))
      ]_vars

\* With eager_deletion off, a pol line was written after the deletion of an
\* operand tagged by a `del id` line, and a pol line whose operand was live
\* already was written after another line.
C18_Witness ==
    /\ ~config.eager_deletion
    /\ \E i \in 2..Len(out) : IsPol(out[i]) /\ out[i - 1] = "del id @1 ;"
    /\ \E i \in 2..Len(out) :
         /\ out[i] = "@3 pol @1 ;"
         /\ ~StartsWith(out[i - 1], "del id")
         /\ "@1" \in marked_for_deletion

\* The IDs a `del id <id> [<id> ...] ;` line names.
DelIds(line) ==
    LET t == Split(line, " ") IN { trim_sc(t[i]) : i \in 3..Len(t) } \ {""}

\* C19: with eager_deletion off, every ID named by a `del id` line the scan
\* has read is tagged for deferred deletion.
C19_DelIdsTagged ==
    (mode = "trim" /\ ~config.eager_deletion /\ tpc \in {"scan", "Ok"}) =>
        \A i \in (lines + 1)..(Len(input) - 3) :
            StartsWith(input[i], "del id") => DelIds(input[i]) \subseteq marked_for_deletion

\* The trimmer is about to read a live assertion with lit_deletion on.
AtLiveAssertion ==
    /\ Scanning
    /\ config.lit_deletion
    /\ IsAssertion(CurrentLine)
    /\ LineId(CurrentLine) \in marked_for_output

\* The tokens of a line before its first `>=`, without a leading `~`.
NamesBeforeGe(line) ==
    LET t == Split(line, " ")
        ge == { i \in 1..Len(t) : t[i] = ">=" }
        n == IF ge = {} THEN Len(t) ELSE (CHOOSE i \in ge : \A j \in ge : i <= j) - 1
    IN [i \in 1..n |-> IF StartsWith(t[i], "~") THEN SubSeq(t[i], 2, Len(t[i])) ELSE t[i]]

\* The first occurrences of the variable names of the line that have not been
\* seen in this run, in order.
NewNames ==
    LET ns == NamesBeforeGe(CurrentLine) IN
    SelectSeq([i \in 1..Len(ns) |->
                  IF /\ StartsWith(ns[i], "x")
                     /\ ns[i] \notin lits_seen
                     /\ \A j \in 1..(i - 1) : ns[j] # ns[i]
                  THEN ns[i] ELSE ""],
              LAMBDA x : x # "")

\* C20: with lit_deletion on, on a live assertion the trimmer writes
\* `del id @lf<name>` and `del id @lr<name>` for each variable name before
\* `>=` that it has not seen in this run, then the assertion; the names are
\* seen afterwards.
C20_LitDeletions ==
    [][ AtLiveAssertion =>
          /\ out' = out
                \o [k \in 1..(2 * Len(NewNames)) |->
                       IF k % 2 = 1
                       THEN "del id @lf" \o NewNames[(k + 1) \div 2]
                       ELSE "del id @lr" \o NewNames[k \div 2]]
                \o <<CurrentLine>>
          /\ lits_seen' = lits_seen \cup Range(NewNames)
      ]_vars

\* An assertion over x1 and x2 was written after the four deletions of their
\* definitions, and a second time with no deletion before it.
C20_Witness ==
    \E i \in 5..(Len(out) - 1) :
        /\ IsAssertion(out[i]) /\ out[i + 1] = out[i]
        /\ out[i - 4] = "del id @lfx1" /\ out[i - 3] = "del id @lrx1"
        /\ out[i - 2] = "del id @lfx2" /\ out[i - 1] = "del id @lrx2"

-----------------------------------------------------------------------------
(* Properties of the hold-back cache of the justifier.                     *)

\* The justifier is about to read a pol line.
AtPol == Styling /\ IsPol(JCurrentLine)

\* The operands of the pol line that are IDs of held assertions, each once, in
\* the order of their first occurrence.
HeldOperands ==
    LET ops == OperandSeq(JCurrentLine) IN
    SelectSeq([i \in 1..Len(ops) |->
                  IF /\ ops[i] \in DOMAIN justifier.lines_to_justify
                     /\ \A j \in 1..(i - 1) : ops[j] # ops[i]
                  THEN ops[i] ELSE ""],
              LAMBDA x : x # "")

\* The calls of justify made by the step, oldest first.
NewJustifyCalls ==
    SelectSeq(SubSeq(justifier'.calls, Len(justifier.calls) + 1, Len(justifier'.calls)),
              LAMBDA c : c.fn = "justify")

\* How often the line occurs among the assertions read so far.
TimesRead(line) == Cardinality({ i \in 1..Len(LinesRead) : LinesRead[i] = line })

\* How often justify was called on the line.
TimesJustified(line) ==
    Cardinality({ k \in 1..Len(justifier.calls) :
                    justifier.calls[k].fn = "justify" /\ justifier.calls[k].arg = line })

\* C21: on a pol line the held assertions it names are justified, in the order
\* of the operands, their expansions are written one after the other and then
\* the pol line, and they are no longer held; no assertion is justified more
\* often than it was read.
C21_ExpandedOnceBeforePol ==
    /\ [](\A i \in 1..Len(ReadOrder) : TimesJustified(ReadOrder[i]) <= TimesRead(ReadOrder[i]))
    /\ [][ AtPol =>
             LET held == HeldOperands
                 new == NewJustifyCalls
             IN
             /\ Len(new) <= Len(held)
             /\ \A i \in 1..Len(new) :
                  /\ new[i].arg = justifier.lines_to_justify[held[i]]
                  /\ new[i].start = IF i = 1 THEN Len(justifier.out) ELSE new[i - 1].end
                  /\ held[i] \notin DOMAIN justifier'.lines_to_justify
             /\ justifier'.pc = "style" =>
                  /\ Len(new) = Len(held)
                  /\ Len(justifier'.out) =
                        (IF new = <<>> THEN Len(justifier.out) ELSE new[Len(new)].end) + 1
                  /\ justifier'.out[Len(justifier'.out)] = JCurrentLine
                  /\ DOMAIN justifier'.lines_to_justify =
                        DOMAIN justifier.lines_to_justify \ Range(held)
         ]_vars

\* The assertion @1 was held, expanded in front of the first pol line that
\* names it, and not again for the second.
C21_Witness ==
    /\ justifier.pc = "Ok" /\ jconfig.max_line_cache > 0
    /\ \E i, j \in 1..Len(justifier.out) :
         /\ i < j
         /\ IsPol(justifier.out[i]) /\ "@1" \in PolOperands(justifier.out[i])
         /\ IsPol(justifier.out[j]) /\ "@1" \in PolOperands(justifier.out[j])
         /\ \E c \in JustifyCalls : LineId(c.arg) = "@1" /\ c.end = i - 1 /\ c.end > c.start
    /\ Cardinality({ k \in 1..Len(justifier.calls) : justifier.calls[k].fn = "justify" }) = 1

\* The justifier is about to read an assertion.
AtAssertion == Styling /\ IsAssertion(JCurrentLine)

CacheFull == Cardinality(DOMAIN justifier.lines_to_justify) >= jconfig.max_line_cache

\* C22: lines_to_justify never holds more than max_line_cache entries; an
\* assertion read with the cache full is justified in that step and the cache
\* keeps its keys, and an assertion read with room in the cache is inserted.
C22_CacheBounded ==
    /\ [](Cardinality(DOMAIN justifier.lines_to_justify) <= jconfig.max_line_cache)
    /\ [][ AtAssertion =>
             IF CacheFull
             THEN /\ DOMAIN justifier'.lines_to_justify = DOMAIN justifier.lines_to_justify
                  /\ Len(NewJustifyCalls) = 1
                  /\ NewJustifyCalls[1].arg = JCurrentLine
             ELSE /\ DOMAIN justifier'.lines_to_justify =
                        DOMAIN justifier.lines_to_justify \cup {LineId(JCurrentLine)}
                  /\ NewJustifyCalls = <<>>
         ]_vars

\* The cache is full with assertions @1 and @2, and @6 was justified when it
\* was read.
C22_Witness ==
    /\ jconfig.max_line_cache = 2
    /\ DOMAIN justifier.lines_to_justify = {"@1", "@2"}
    /\ \E c \in JustifyCalls : LineId(c.arg) = "@6"
    /\ \A i \in 1..Len(LinesRead) : ~IsPol(LinesRead[i])

\* The place in the read order of the held assertion with the given ID: the
\* last time its line was read.
HeldSince(id) ==
    CHOOSE i \in 1..Len(LinesRead) :
        /\ LinesRead[i] = justifier.lines_to_justify[id]
        /\ \A j \in (i + 1)..Len(LinesRead) : LinesRead[j] # LinesRead[i]

\* The held assertion that was read first.
OldestHeld ==
    LET id == CHOOSE id \in DOMAIN justifier.lines_to_justify :
                  \A other \in DOMAIN justifier.lines_to_justify :
                      HeldSince(id) <= HeldSince(other)
    IN justifier.lines_to_justify[id]

\* C23 as stated: an assertion that is read with the cache full makes the
\* justifier justify the oldest held assertion.
C23_OldestJustifiedOnOverflow ==
    [][ (AtAssertion /\ CacheFull /\ DOMAIN justifier.lines_to_justify # {}) =>
            \E i \in 1..Len(NewJustifyCalls) : NewJustifyCalls[i].arg = OldestHeld
      ]_vars

\* C23, amended: an assertion that is read with the cache full is itself the
\* one that is justified, and every held assertion, the oldest included, stays
\* held as it is.
C23_ArrivingJustifiedOnOverflow ==
    [][ (AtAssertion /\ CacheFull) =>
            /\ \A i \in 1..Len(NewJustifyCalls) : NewJustifyCalls[i].arg = JCurrentLine
            /\ NewJustifyCalls # <<>>
            /\ justifier'.lines_to_justify = justifier.lines_to_justify
      ]_vars

\* Assertion @1 was read first and is held; assertion @6 was read with the
\* cache of one entry full, and was justified.
C23_Witness ==
    /\ jconfig.max_line_cache = 1
    /\ Len(LinesRead) = 2
    /\ LineId(LinesRead[1]) = "@1" /\ LineId(LinesRead[2]) = "@6"
    /\ DOMAIN justifier.lines_to_justify = {"@1"}
    /\ \A c \in JustifyCalls : LineId(c.arg) = "@6"
    /\ JustifyCalls # {}

-----------------------------------------------------------------------------
(* Properties of the lines the justifier passes through.                   *)

\* The output line i was written by a call of justify.
InExpansion(i) == \E c \in JustifyCalls : c.start < i /\ i <= c.end

\* The lines of the output that no call of justify wrote, in output order.
PassedThrough ==
    LET idx == SelectSeq([i \in 1..Len(justifier.out) |-> i], LAMBDA i : ~InExpansion(i))
    IN [k \in 1..Len(idx) |-> justifier.out[idx[k]]]

\* The lines of a file that are not assertions.
NonAssertions(file) == SelectSeq(file, LAMBDA line : ~IsAssertion(line))

\* C24: unless the pass panics, the lines written outside the expansions are
\* the lines read that are not assertions, unchanged and in the order read;
\* when the pass is over they are all such lines of the input.
C24_OthersPassThrough ==
    (mode = "style" /\ justifier.pc # "panic") =>
        /\ PassedThrough = NonAssertions(LinesRead)
        /\ justifier.pc # "style" => PassedThrough = NonAssertions(ReadOrder)

-----------------------------------------------------------------------------
(* Properties of the definition subsystem.                                 *)

\* Some line of the output has the label.
Written(label) == \E i \in 1..Len(justifier.out) : Label(justifier.out[i]) = label

\* C25: for every CP variable in defined_bounds both the `@lb` and the `@ub`
\* axiom of the variable have been written.
C25_DefinedBoundsWritten ==
    \A v \in justifier.defined_bounds : Written("@lb" \o v) /\ Written("@ub" \o v)

\* The calls of ensure_lit_defined made so far.
LitCallSet == { justifier.calls[k] : k \in LitCalls }

\* The literal a call of ensure_lit_defined was made on.
LitOf(c) == ParseLit(c.arg)

\* C26: a call of ensure_lit_defined on a literal that is in defined_lits
\* returns `@lf<name>` for a positive literal and `@lr<name>` for a negated
\* one, writes no line, and leaves defined_lits and defined_bounds as they are.
C26_DefinedLitReturnsId ==
    \A c \in LitCallSet :
        LitOf(c) \in c.lits0 =>
            /\ c.ok
            /\ c.ret = (IF LitOf(c).neg THEN "@lr" ELSE "@lf") \o LitOf(c).var
            /\ c.end = c.start
            /\ c.lits1 = c.lits0
            /\ c.bounds1 = c.bounds0

\* x1 is a Boolvar; x1 and ~x1 were defined, and ensure_lit_defined was then
\* called on ~x1 again.
C26_Witness ==
    /\ cp_lit_map["x1"].type = "boolvar"
    /\ \E c \in LitCallSet :
         /\ c.arg = "~x1" /\ c.ret = "@lrx1"
         /\ c.lits0 = DefineLits

\* What the literal map holds for the literal of a call.
DataOf(c) == cp_lit_map[LitOf(c).var]

\* A call of ensure_lit_defined on a mapped literal that was not defined.
Defining(c) == LitOf(c) \notin c.lits0 /\ LitOf(c).var \in DOMAIN cp_lit_map

\* The operator of a condition as it holds for the literal: negated for a
\* negated literal.
EffectiveOperator(c) ==
    LET op == DataOf(c).operator IN
    IF ~LitOf(c).neg THEN op
    ELSE CASE op = ">=" -> "<" [] op = "<" -> ">=" [] op = "==" -> "!=" [] op = "!=" -> "=="

\* The `red` line of C27 for a call on a condition literal.
ConditionRedLine(c) ==
    LET lit == LitOf(c)
        value == ParseInt(DataOf(c).value).v
        ge == EffectiveOperator(c) = ">="
    IN (IF lit.neg THEN "@lr" ELSE "@lf") \o lit.var
         \o " red " \o (IF lit.neg THEN "~" ELSE " ") \o lit.var
         \o " ==> " \o cp_var_bits_str(DataOf(c).name, 1).val
         \o " " \o (IF ge THEN ">=" ELSE "<=")
         \o " " \o ToString(IF ge THEN value ELSE value - 1)
         \o " : " \o lit.var \o " -> " \o (IF lit.neg THEN "1" ELSE "0") \o " ;"

\* C27: a call of ensure_lit_defined on an undefined condition literal whose
\* operator is >= or <, on a CP variable with an integer domain, writes the
\* one line `<defId> red <~?><lit> ==> <bits> op' rhs' : <lit> -> w ;`, returns
\* the definition ID and adds the literal to defined_lits.
C27_ConditionRedLine ==
    \A c \in LitCallSet :
        (/\ Defining(c)
         /\ DataOf(c).type = "condition"
         /\ DataOf(c).operator \in {">=", "<"}
         /\ get_min_max_for_var(DataOf(c).name).ok) =>
            /\ c.ok
            /\ c.ret = (IF LitOf(c).neg THEN "@lr" ELSE "@lf") \o LitOf(c).var
            /\ c.end = c.start + 1
            /\ justifier.out[c.end] = ConditionRedLine(c)
            /\ c.lits1 = c.lits0 \cup {LitOf(c)}
            /\ c.bounds1 = c.bounds0

\* x1 stands for V < 1: the line of x1 has `<= 0` and the witness 0, the line
\* of ~x1 has `>= 1` and the witness 1.
C27_Witness ==
    /\ cp_lit_map["x1"] = Condition("V", "<", "1")
    /\ \E i, j \in 1..Len(justifier.out) :
         /\ Tokens(justifier.out[i])[1] = "@lfx1"
         /\ SubSeq(Tokens(justifier.out[i]), Len(Tokens(justifier.out[i])) - 7,
                   Len(Tokens(justifier.out[i])))
              = <<"V_b0", "<=", "0", ":", "x1", "->", "0", ";">>
         /\ Tokens(justifier.out[j])[1] = "@lrx1"
         /\ SubSeq(Tokens(justifier.out[j]), Len(Tokens(justifier.out[j])) - 7,
                   Len(Tokens(justifier.out[j])))
              = <<"V_b0", ">=", "1", ":", "x1", "->", "1", ";">>

\* C28: a call of ensure_lit_defined on an undefined condition literal whose
\* effective operator is == or != returns a JustificationError, writes no
\* line and does not add the literal to defined_lits.
C28_EqualityLiteralRejected ==
    \A c \in LitCallSet :
        (/\ Defining(c)
         /\ DataOf(c).type = "condition"
         /\ EffectiveOperator(c) \in {"==", "!="}) =>
            /\ ~c.ok
            /\ c.kind = "JustificationError"
            /\ c.end = c.start
            /\ c.lits1 = c.lits0
            /\ LitOf(c) \notin c.lits1

\* x1 stands for V == k: the call on x1 (effective operator ==) and the call
\* on ~x1 (effective operator !=) both returned the error.
C28_Witness ==
    /\ cp_lit_map["x1"].type = "condition" /\ cp_lit_map["x1"].operator = "=="
    /\ \E c \in LitCallSet : c.arg = "x1" /\ c.kind = "JustificationError"
    /\ \E c \in LitCallSet : c.arg = "~x1" /\ c.kind = "JustificationError"
    /\ justifier.out = <<>> /\ justifier.defined_lits = {}

\* The CP variable and the value of a Boolvar name `V=k`.
BoolvarVar(c) == Split(DataOf(c).name, "=")[1]

BoolvarValue(c) == ParseInt(Split(DataOf(c).name, "=")[2]).v

\* A call of ensure_lit_defined on an undefined Boolvar literal named `V=k`.
DefiningBoolvar(c) ==
    /\ Defining(c)
    /\ DataOf(c).type = "boolvar"
    /\ Len(Split(DataOf(c).name, "=")) = 2
    /\ ParseInt(Split(DataOf(c).name, "=")[2]).ok

IsRedLine(line) == Len(Tokens(line)) >= 2 /\ Tokens(line)[2] = "red"

\* C29: a call of ensure_lit_defined on an undefined Boolvar literal `V=k`
\* leaves V in defined_bounds; when V's bounds were not defined and V has an
\* integer domain, the first two lines it writes are the `@lb` and `@ub`
\* axioms of V; a `red` line is written only after both axioms; and when k is
\* neither the minimum nor the maximum of the domain the call returns a
\* JustificationError, writes no `red` line and leaves defined_lits alone.
C29_BoolvarBoundsFirst ==
    \A c \in LitCallSet :
        DefiningBoolvar(c) =>
            LET V == BoolvarVar(c)
                mm == get_min_max_for_var(V)
            IN
            /\ V \in c.bounds1
            /\ (mm.ok /\ V \notin c.bounds0) =>
                  /\ c.end >= c.start + 2
                  /\ Label(justifier.out[c.start + 1]) = "@lb" \o V
                  /\ Label(justifier.out[c.start + 2]) = "@ub" \o V
            /\ \A i \in (c.start + 1)..c.end :
                  IsRedLine(justifier.out[i]) =>
                      /\ \E j \in 1..(i - 1) : Label(justifier.out[j]) = "@lb" \o V
                      /\ \E j \in 1..(i - 1) : Label(justifier.out[j]) = "@ub" \o V
            /\ (mm.ok /\ BoolvarValue(c) \notin {mm.val[1], mm.val[2]}) =>
                  /\ ~c.ok
                  /\ c.kind = "JustificationError"
                  /\ \A i \in (c.start + 1)..c.end : ~IsRedLine(justifier.out[i])
                  /\ c.lits1 = c.lits0

\* V has the domain -1..1 and x1 stands for V=0: the call wrote the two bound
\* axioms and returned the error.
C29_Witness ==
    /\ cp_lit_map["x1"] = Boolvar("V=0")
    /\ get_min_max_for_var("V") = Ok(<<-1, 1>>)
    /\ Len(justifier.out) = 2
    /\ Label(justifier.out[1]) = "@lbV" /\ Label(justifier.out[2]) = "@ubV"
    /\ \E c \in LitCallSet : c.kind = "JustificationError" /\ c.end = 2
    /\ justifier.defined_lits = {}

\* The inequality at the right of a `red` line, on the value v of the CP
\* variable that the bits stand for.
RedHolds(line, v) ==
    LET t == Tokens(line)
        op == t[Len(t) - 6]
        rhs == ParseInt(t[Len(t) - 5]).v
    IN IF op = ">=" THEN v >= rhs ELSE v <= rhs

\* C30: the `red` line written for a Boolvar literal `V=k` holds, on a value v
\* of V's domain min..max, exactly when v = k for the positive literal and
\* exactly when v # k for the negated one.
C30_BoolvarMeansEquality ==
    \A c \in LitCallSet :
        (DefiningBoolvar(c) /\ c.ok) =>
            LET mm == get_min_max_for_var(BoolvarVar(c)).val
                k == BoolvarValue(c)
            IN
            /\ k \in {mm[1], mm[2]}
            /\ IsRedLine(justifier.out[c.end])
            /\ \A v \in mm[1]..mm[2] :
                  RedHolds(justifier.out[c.end], v) <=> (IF LitOf(c).neg THEN v # k ELSE v = k)

\* V has more than two values, k is its minimum, and both x1 and ~x1 were
\* defined; the line of ~x1 has k + 1 at its right.
C30_Witness ==
    LET mm == get_min_max_for_var("V") IN
    /\ mm.ok /\ mm.val[2] >= mm.val[1] + 2
    /\ cp_lit_map["x1"].type = "boolvar"
    /\ \E c \in LitCallSet : DefiningBoolvar(c) /\ c.ok /\ ~LitOf(c).neg
    /\ \E c \in LitCallSet :
         /\ DefiningBoolvar(c) /\ c.ok /\ LitOf(c).neg
         /\ BoolvarValue(c) = mm.val[1]
         /\ Tokens(justifier.out[c.end])[Len(Tokens(justifier.out[c.end])) - 5]
              = ToString(mm.val[1] + 1)

-----------------------------------------------------------------------------
(* The bit width as a logarithm.                                           *)

RECURSIVE CeilLog2From(_, _)
\* The least k >= from with 2^k >= n.
CeilLog2From(n, from) == IF Pow2(from) >= n THEN from ELSE CeilLog2From(n, from + 1)

\* ceil(log2(n)) for n >= 1.
CeilLog2(n) == CeilLog2From(n, 0)

\* C31: num_bits_for_range(min, max) is ceil(log2(max + 1)) when min >= 0 and
\* ceil(log2(max(|min|, |max|) + 1)) + 1 when min < 0.
C31_NumBitsIsCeilLog2 ==
    bitcall.num_bits # <<>> =>
        bitcall.num_bits[1] =
            IF bitcall.min >= 0
            THEN CeilLog2(bitcall.max + 1)
            ELSE CeilLog2(Max(Abs(bitcall.min), Abs(bitcall.max)) + 1) + 1

-----------------------------------------------------------------------------
(* Further properties of the family justifiers.                            *)

\* The literals of the constraint of an assertion line.
LitsOf(line) == StepOf(line).constraint.lits

\* C32: a call of justify on an IntVarDef assertion with more than two
\* literals returns Ok having written no pol line and no `ia` line, and its
\* last two lines are the failure comment and the bare `a` line with the ID
\* of the assertion.
C32_IntVarDefTooManyLits ==
    \A c \in JustifyCalls :
        (FamilyOf(c.arg) = "IntVarDef" /\ Len(LitsOf(c.arg)) > 2) =>
            /\ c.ok
            /\ c.end >= c.start + 2
            /\ StartsWith(justifier.out[c.end - 1], FailedPrefix)
            /\ Tokens(justifier.out[c.end])[1] = LineId(c.arg)
            /\ Tokens(justifier.out[c.end])[2] = "a"
            /\ \A i \in Span(c) :
                  /\ Tokens(justifier.out[i])[1] # "pol"
                  /\ Tokens(justifier.out[i])[2] # "ia"

\* The ID of an axiom of a linear encoding.
IsEncodingId(t) == StartsWith(t, "@f") /\ (EndsWith(t, "_le") \/ EndsWith(t, "_ge"))

\* C33: no axiom of a linear encoding is written twice.
C33_EncodingWrittenOnce ==
    \A i, j \in 1..Len(justifier.out) :
        (i < j /\ IsEncodingId(Label(justifier.out[i]))) =>
            Label(justifier.out[j]) # Label(justifier.out[i])

(* The pol lines of IntLinear. *)

\* The CP variable a mapped literal of the proof refers to.
CPVarOf(lit) ==
    LET d == cp_lit_map[lit.var] IN
    IF d.type = "boolvar" THEN Split(d.name, "=")[1] ELSE d.name

CPVarsOf(line) == { CPVarOf(LitsOf(line)[i]) : i \in 1..Len(LitsOf(line)) }

\* The coefficients and the variables of the FlatZinc constraint of a line.
CoeffsOf(line) ==
    LET a == FznConstraintOf(line).args[1].contents IN [k \in 1..Len(a) |-> a[k].v]

VarsOf(line) ==
    LET a == FznConstraintOf(line).args[2].contents IN [k \in 1..Len(a) |-> a[k].v]

EncodingSuffix(mult) == IF mult = 1 THEN "_le" ELSE "_ge"

\* The positions of the pol lines the call c wrote for the multiplier mult.
PolLinesOf(c, mult) ==
    { i \in Span(c) :
        LET t == Tokens(justifier.out[i]) IN
        /\ Len(t) >= 2
        /\ t[1] = "pol"
        /\ t[2] = FznIdOf(c.arg) \o EncodingSuffix(mult) }

\* The pol line at position i has the term `id w *`.
HasTerm(i, id, w) ==
    LET t == Tokens(justifier.out[i]) IN
    \E k \in 3..(Len(t) - 2) :
        t[k] = id /\ t[k + 1] = ToString(w) /\ t[k + 2] = "*"

Mentions(i, id) == id \in Range(Tokens(justifier.out[i]))

\* Both bounds of var are written before position i.
BoundsWrittenBefore(i, var) ==
    /\ \E j \in 1..(i - 1) : Label(justifier.out[j]) = "@lb" \o var
    /\ \E j \in 1..(i - 1) : Label(justifier.out[j]) = "@ub" \o var

\* C34: in a pol line of a justified IntLinear assertion, a variable of the
\* FlatZinc constraint that is the CP variable of none of the assertion's
\* literals has its bounds written before the pol line, and the pol line has
\* the term `@lb<var> |coeff| *` and no `@ub<var>` when coeff * mult > 0, the
\* term `@ub<var> |coeff| *` and no `@lb<var>` when coeff * mult < 0, and
\* neither bound when coeff = 0 (mult = 1 for the line seeded with `_le`,
\* -1 for the line seeded with `_ge`).
C34_UnmatchedVarsUseBounds ==
    \A c \in JustifiedBy("IntLinear") : \A mult \in {1, -1} :
        \A i \in PolLinesOf(c, mult) : \A k \in 1..Len(VarsOf(c.arg)) :
            LET var == VarsOf(c.arg)[k]
                coeff == CoeffsOf(c.arg)[k]
            IN
            var \notin CPVarsOf(c.arg) =>
                /\ BoundsWrittenBefore(i, var)
                /\ coeff * mult > 0 =>
                      /\ HasTerm(i, "@lb" \o var, Abs(coeff))
                      /\ ~Mentions(i, "@ub" \o var)
                /\ coeff * mult < 0 =>
                      /\ HasTerm(i, "@ub" \o var, Abs(coeff))
                      /\ ~Mentions(i, "@lb" \o var)
                /\ coeff = 0 =>
                      /\ ~Mentions(i, "@lb" \o var)
                      /\ ~Mentions(i, "@ub" \o var)

\* An int_lin_eq assertion on a literal of V is justified: its `_le` line has
\* the upper bound of B (coefficient -1) and its `_ge` line the lower bound,
\* and N (coefficient 0) is in neither.
C34_Witness ==
    \E c \in JustifiedBy("IntLinear") :
        /\ FznConstraintOf(c.arg).id = "int_lin_eq"
        /\ CPVarsOf(c.arg) = {"V"}
        /\ \E i \in PolLinesOf(c, 1) : HasTerm(i, "@ubB", 1)
        /\ \E i \in PolLinesOf(c, -1) : HasTerm(i, "@lbB", 1)
        /\ \A i \in PolLinesOf(c, 1) \cup PolLinesOf(c, -1) :
              BoundsWrittenBefore(i, "N") /\ ~Mentions(i, "@lbN")

\* The ID of the definition of the negation of a literal.
NegationId(lit) == (IF lit.neg THEN "@lf" ELSE "@lr") \o lit.var

\* C35: in a pol line of a justified IntLinear assertion, a variable of the
\* FlatZinc constraint that is the CP variable of a literal of the assertion
\* has the term `<id> |coeff| *`, id the definition ID of the negation of that
\* literal, for Condition and for Boolvar literals.
C35_MatchedVarsUseNegation ==
    \A c \in JustifiedBy("IntLinear") : \A mult \in {1, -1} :
        \A i \in PolLinesOf(c, mult) :
            \A k \in 1..Len(VarsOf(c.arg)) : \A l \in 1..Len(LitsOf(c.arg)) :
                VarsOf(c.arg)[k] = CPVarOf(LitsOf(c.arg)[l]) =>
                    HasTerm(i, NegationId(LitsOf(c.arg)[l]), Abs(CoeffsOf(c.arg)[k]))

(* Fatal errors of the trimmer. *)

\* The operands of a pol line before the first that does not start with `@`.
OperandsBeforeBad(line) ==
    LET ops == OperandSeq(line)
        bad == { i \in 1..Len(ops) : ~StartsWith(ops[i], "@") }
        n == IF bad = {} THEN Len(ops) ELSE (CHOOSE i \in bad : \A j \in bad : i <= j) - 1
    IN SubSeq(ops, 1, n)

\* The del lines trim writes for the operands of the line it is about to read
\* that come before the first bad operand.
DelLinesBeforeBad ==
    LET ops == OperandsBeforeBad(CurrentLine)
        dels == SelectSeq([i \in 1..Len(ops) |->
                              IF /\ ops[i] \notin marked_for_output
                                 /\ \A j \in 1..(i - 1) : ops[j] # ops[i]
                                 /\ (config.eager_deletion \/ ops[i] \in marked_for_deletion)
                              THEN ops[i] ELSE ""],
                          LAMBDA o : o # "")
    IN [i \in 1..Len(dels) |-> "del id " \o dels[i] \o " ;"]

\* The trimmer is about to read a live pol line with a bad operand.
AtBadLivePol ==
    /\ Scanning
    /\ LineId(CurrentLine) \in marked_for_output
    /\ HasBadOperand(CurrentLine)

\* trim is at its first statement on a file whose last line is the `end`
\* line and whose second line from the end is not a `conclusion UNSAT` line,
\* or is one that names an ID while the third is not an `output` line.
AtBadFooter ==
    LET n == Len(input) IN
    /\ mode = "trim" /\ tpc = "start"
    /\ n >= 2
    /\ StartsWith(input[n], "end pseudo-Boolean")
    /\ \/ ~StartsWith(input[n - 1], "conclusion UNSAT")
       \/ /\ n >= 3
          /\ Len(Split(input[n - 1], ":")) >= 2
          /\ ~StartsWith(input[n - 2], "output")

IsDelLine(line) == StartsWith(line, "del id ")

\* The ID the accepted `conclusion UNSAT : <id> ;` line names.
ContradictionId == Trim(Split(Split(input[Len(input) - 1], ":")[2], ";")[1])

\* The footer was accepted: its three lines are the first of the output.
FooterAccepted == mode = "trim" /\ Len(out) >= 3

\* C37: the output of the trimmer is written last line first. In it no pol
\* line that names an ID o is written before a del line of o (read forwards,
\* no pol line uses o after o is deleted), no two del lines name the same ID,
\* and no del line names the contradiction ID.
C37_NoUseAfterDelete ==
    /\ \A i, j \in 1..Len(out) :
          (i < j /\ IsDelLine(out[j]) /\ IsPol(out[i])) =>
              DelIds(out[j]) \cap PolOperands(out[i]) = {}
    /\ \A i, j \in 1..Len(out) :
          (i < j /\ IsDelLine(out[i]) /\ IsDelLine(out[j])) =>
              DelIds(out[i]) \cap DelIds(out[j]) = {}
    /\ FooterAccepted =>
          \A j \in 1..Len(out) : IsDelLine(out[j]) => ContradictionId \notin DelIds(out[j])

\* trim returned Ok with one del line of @1 and two pol lines that name @1,
\* both written after the del line, one of them the contradiction.
C37_Witness ==
    /\ mode = "trim" /\ tpc = "Ok"
    /\ \E j \in 1..Len(out) :
          /\ out[j] = "del id @1 ;"
          /\ \E i, k \in (j + 1)..Len(out) :
                /\ i < k
                /\ IsPol(out[i]) /\ "@1" \in PolOperands(out[i])
                /\ IsPol(out[k]) /\ "@1" \in PolOperands(out[k])
                /\ LineId(out[i]) = ContradictionId

(* The IDs ensure_lit_defined returns. *)

\* C38: two calls of ensure_lit_defined on the same literal that return Ok
\* return the same definition ID, whether the call defined the literal or
\* found it defined.
C38_SameIdOnEveryCall ==
    \A c, d \in LitCallSet :
        (c.ok /\ d.ok /\ c.arg = d.arg) => c.ret = d.ret

(* What a call of justify writes. *)

\* The positions of the lines the call c wrote that start with the ID of the
\* assertion it was called on.
OwnLines(c) == { i \in Span(c) : Label(justifier.out[i]) = LineId(c.arg) }

\* C39: a call of justify that returned Ok wrote exactly one line that starts
\* with the ID of its assertion, and that line is the last it wrote.
C39_OneOwnLineLast ==
    \A c \in JustifyCalls : c.ok => OwnLines(c) = {c.end}

\* A family justifier failed after definitions were written: the call wrote
\* a definition first, then the failure comment, then the bare assertion.
C39_Witness ==
    \E c \in JustifyCalls :
        /\ c.ok
        /\ c.end >= c.start + 3
        /\ IsDefinitionLine(justifier.out[c.start + 1])
        /\ StartsWith(justifier.out[c.end - 1], FailedPrefix)
        /\ OwnLines(c) = {c.end}

(* Deletion of literal definitions. *)

IsLitDefinitionId(t) == StartsWith(t, "@lf") \/ StartsWith(t, "@lr")

\* C40: in the output of the justifier on a proof trimmed with lit_deletion
\* on, no line after a line `del id @lf<x>` or `del id @lr<x>` starts with
\* that ID or names it: the del line comes after the definition and after
\* every reference.
C40_LitDeletedAfterUse ==
    (mode = "style" /\ config.lit_deletion) =>
        \A j \in 1..Len(justifier.out) :
            IsDelLine(justifier.out[j]) =>
                \A id \in DelIds(justifier.out[j]) : \A i \in (j + 1)..Len(justifier.out) :
                    (IsLitDefinitionId(id) /\ ~IsDelLine(justifier.out[i])) =>
                        id \notin Range(Tokens(justifier.out[i]))

====
